---- MODULE Spec2Model ----
(***************************************************************************)
(* Model of the health-risk pipeline of the repository:                    *)
(*   app/services/feature_engineering.py  HealthFeatureEngineer            *)
(*   app/models/risk_model.py             MultiDiseaseRiskModel            *)
(*   app/services/scoring_engine.py       RiskScoringEngine                *)
(*   app/services/data_pipeline.py        HealthDataPipeline (Firestore)   *)
(*   app/routes.py                        generate_risk_assessment         *)
(*   app/services/risk_prob_predictor.py  get_model, predict_risks         *)
(*                                                                         *)
(* Numbers.  A Python number is modelled exactly as a triple               *)
(* <<n, d, form>>:                                                         *)
(*   form "q"               the rational n/d, d > 0, in lowest terms       *)
(*   form "nan"             float NaN (pandas' mean/std of nothing)        *)
(*   form "sqrt"            sqrt(n/d), a sample standard deviation         *)
(*   form "one_minus_sqrt"  1 - sqrt(n/d), the sleep consistency           *)
(*   form "str"             a value that is not a number (a string)        *)
(* Floating-point rounding error is not modelled.                          *)
(* Probabilities are integers in units of 1/PUnit; risk_score percentages  *)
(* are integers in units of 0.01 percent.                                  *)
(***************************************************************************)
EXTENDS Integers, Sequences, FiniteSets, TLC

VARIABLES
    lab_data,            \* the lab documents, newest first: the list handed to
                         \* engineer_features (SpecFE, SpecPipeline), the stored
                         \* collection users/<uid>/lab_data (Spec)
    lifestyle_data,      \* likewise users/<uid>/lifestyle_data
    mental_health_data,  \* likewise users/<uid>/mental_health_data
    family_history,      \* medical_profile/family_history; the empty mapping is None
    risk_reports,        \* users/<uid>/risk_reports, newest first
    clock,               \* datetime.now() of the last request, in days
    call,                \* the operation that ran last
    args,                \* the arguments of that operation that are not in the store
    features,            \* the DataFrame row engineer_features returned
    risk_scores,         \* the mapping predict_risk_scores returned
    report,              \* the dict generate_risk_report returned
    ret,                 \* the value a directly called helper returned
    response,            \* the HTTP response of the last request
    _MODEL,              \* risk_prob_predictor._MODEL, the module-level cache
    model_file,          \* whether the file at _default_model_path() exists
    loads,               \* how many times pickle.load has read the model file
    pc,                  \* where each caller of get_model stands
    frame                \* each caller's loaded object, and the value it was returned

pipelineVars == <<lab_data, lifestyle_data, mental_health_data, family_history, risk_reports,
                  clock, call, args, features, risk_scores, report, ret, response>>

loaderVars == <<_MODEL, model_file, loads, pc, frame>>

vars == <<pipelineVars, loaderVars>>

\* ------------------------------------------------------------------ bounds
\* The most records one health_data holds, over its three record sequences.
MaxRecords == 3

\* ------------------------------------------------------------------ numbers
Abs(n) == IF n < 0 THEN -n ELSE n

RECURSIVE GCD(_, _)
GCD(a, b) == IF b = 0 THEN a ELSE GCD(b, a % b)

Q(n, d) ==
    LET g == GCD(Abs(n), Abs(d))
        s == IF d < 0 THEN -1 ELSE 1
    IN  <<(s * n) \div g, (s * d) \div g, "q">>

Num(n) == <<n, 1, "q">>
NaN == <<0, 0, "nan">>
NotANumber == <<0, 0, "str">>

IsNum(v) == v[3] = "q"
IsStr(v) == v[3] = "str"

\* Python comparison of two floats: every comparison with NaN is False.
Lt(a, b) == IsNum(a) /\ IsNum(b) /\ a[1] * b[2] < b[1] * a[2]
Le(a, b) == IsNum(a) /\ IsNum(b) /\ a[1] * b[2] <= b[1] * a[2]
Gt(a, b) == Lt(b, a)
Ge(a, b) == Le(b, a)
Eq(a, b) == IsNum(a) /\ IsNum(b) /\ a[1] * b[2] = b[1] * a[2]

\* Arithmetic: NaN is contagious.
QAdd(a, b) == IF IsNum(a) /\ IsNum(b) THEN Q(a[1] * b[2] + b[1] * a[2], a[2] * b[2]) ELSE NaN
QSub(a, b) == IF IsNum(a) /\ IsNum(b) THEN Q(a[1] * b[2] - b[1] * a[2], a[2] * b[2]) ELSE NaN
QMul(a, b) == IF IsNum(a) /\ IsNum(b) THEN Q(a[1] * b[1], a[2] * b[2]) ELSE NaN
QDiv(a, b) == IF IsNum(a) /\ IsNum(b) /\ b[1] # 0 THEN Q(a[1] * b[2], a[2] * b[1]) ELSE NaN

Sqrt(v) == IF ~IsNum(v) THEN NaN ELSE IF v[1] = 0 THEN Num(0) ELSE <<v[1], v[2], "sqrt">>
OneMinusSqrt(v) ==
    IF ~IsNum(v) THEN NaN ELSE IF v[1] = 0 THEN Num(1) ELSE <<v[1], v[2], "one_minus_sqrt">>

RECURSIVE QSum(_)
QSum(s) == IF s = <<>> THEN Num(0) ELSE QAdd(Head(s), QSum(Tail(s)))

\* ------------------------------------------------------------------ mappings
EmptyDict == [k \in {} |-> NaN]

\* dict.get(key, default)
Get(d, k, default) == IF k \in DOMAIN d THEN d[k] ELSE default

\* A nested sub-panel of a record: a mapping, or a value that is not a mapping.
Mapping(items) == [is_mapping |-> TRUE, items |-> items]
NotAMapping == [is_mapping |-> FALSE, items |-> EmptyDict]

\* ------------------------------------------------------------------ pandas
\* 'column' in df: some record carries the key.
HasColumn(data, k) == \E i \in 1..Len(data) : k \in DOMAIN data[i]

\* df[column].dropna(): the values of the records that carry the key, in frame order.
RECURSIVE Column(_, _)
Column(data, k) ==
    IF data = <<>> THEN <<>>
    ELSE IF k \in DOMAIN Head(data) THEN <<Head(data)[k]>> \o Column(Tail(data), k)
    ELSE Column(Tail(data), k)

\* Series.mean(): NaN of an empty series.
Mean(s) == IF s = <<>> THEN NaN ELSE QDiv(QSum(s), Num(Len(s)))

\* Series.std(): the sample standard deviation (ddof = 1), NaN below two values.
Variance(s) ==
    LET n == Len(s)
        sq == [i \in 1..n |-> QMul(s[i], s[i])]
    IN  IF n < 2 THEN NaN
        ELSE QDiv(QSub(QMul(Num(n), QSum(sq)), QMul(QSum(s), QSum(s))), Num(n * (n - 1)))
Std(s) == Sqrt(Variance(s))

\* (boolean series).sum(): how many entries are True.
CountTrue(flags) == Cardinality({i \in DOMAIN flags : flags[i]})

\* np.polyfit(np.arange(len(values)), values, 1)[0]: the least-squares slope of
\* values against their position 0, 1, ... in the given order.
PolyfitSlope(values) ==
    LET n == Len(values)
        sx == (n * (n - 1)) \div 2
        sxx == ((n - 1) * n * (2 * n - 1)) \div 6
        sy == QSum(values)
        sxy == QSum([i \in 1..n |-> QMul(Num(i - 1), values[i])])
    IN  QDiv(QSub(QMul(Num(n), sxy), QMul(Num(sx), sy)), Num(n * sxx - sx * sx))

\* ------------------------------------------------------------------ schema
LabKeys ==
    {"glucose_latest", "hba1c_latest", "cholesterol_latest", "hdl_latest", "ldl_latest",
     "triglycerides_latest", "bp_systolic_latest", "bp_diastolic_latest",
     "heart_rate_latest", "alt_latest", "ast_latest", "creatinine_latest", "bun_latest",
     "glucose_trend", "hba1c_trend", "bp_systolic_trend", "cholesterol_trend",
     "glucose_variability", "bp_variability", "cholesterol_hdl_ratio", "pulse_pressure",
     "prediabetes_flag", "prehypertension_flag"}

LifestyleKeys ==
    {"avg_sleep_hours", "sleep_consistency", "poor_sleep_days", "avg_exercise_minutes",
     "exercise_frequency", "avg_steps", "avg_water_intake", "dehydration_risk",
     "avg_alcohol_units", "smoking", "diet_quality_score", "meal_regularity",
     "sedentary_lifestyle"}

MentalKeys ==
    {"avg_stress_level", "avg_anxiety_level", "high_stress_frequency", "avg_mood_score",
     "low_mood_frequency", "social_interaction_score", "work_life_balance_score",
     "chronic_stress_flag", "depression_risk_flag"}

FamilyKeys ==
    {"family_diabetes", "family_hypertension", "family_heart_disease",
     "family_liver_disease", "family_mental_health", "has_family_diabetes",
     "has_family_hypertension", "has_family_heart_disease", "has_family_liver_disease",
     "has_family_mental_health", "genetic_risk_score"}

_get_default_lab_features == [k \in LabKeys |-> Num(0)]

_get_default_lifestyle_features ==
    [avg_sleep_hours |-> Num(7), sleep_consistency |-> Q(1, 2), poor_sleep_days |-> Num(0),
     avg_exercise_minutes |-> Num(0), exercise_frequency |-> Num(0), avg_steps |-> Num(5000),
     avg_water_intake |-> Num(2000), dehydration_risk |-> Num(0),
     avg_alcohol_units |-> Num(0), smoking |-> Num(0), diet_quality_score |-> Q(5, 2),
     meal_regularity |-> Q(4, 5), sedentary_lifestyle |-> Num(1)]

_get_default_mental_health_features ==
    [avg_stress_level |-> Num(5), avg_anxiety_level |-> Num(3),
     high_stress_frequency |-> Num(0), avg_mood_score |-> Num(3),
     low_mood_frequency |-> Num(0), social_interaction_score |-> Num(2),
     work_life_balance_score |-> Q(5, 2), chronic_stress_flag |-> Num(0),
     depression_risk_flag |-> Num(0)]

_get_default_family_history_features == [k \in FamilyKeys |-> Num(0)]

\* What an extractor hands back: a feature mapping, or an exception on its way up.
Returned(f) == [raised |-> FALSE, value |-> f]
Raised == [raised |-> TRUE, value |-> EmptyDict]

Flag(b) == IF b THEN Num(1) ELSE Num(0)

\* ------------------------------------------------------------------ lab
\* _calculate_trend(df, column); df is DataFrame(lab_data), rows in the order of
\* lab_data. Any exception inside (a value that is not a number) gives 0.
_calculate_trend(data, column) ==
    IF ~HasColumn(data, column) \/ Len(data) < 2 THEN Num(0)
    ELSE LET values == Column(data, column)
         IN  IF Len(values) < 2 THEN Num(0)
             ELSE IF \E i \in 1..Len(values) : ~IsNum(values[i]) THEN Num(0)
             ELSE PolyfitSlope(values)

\* The feature mapping _extract_lab_features builds from a non-empty lab_data,
\* in the order of its assignments.
LabFeatures(data) ==
    LET latest == data[1]
        liver == Get(latest, "liver_enzymes", Mapping(EmptyDict)).items
        kidney == Get(latest, "kidney_function", Mapping(EmptyDict)).items
        glucose == Get(latest, "glucose", Num(0))
        chol == Get(latest, "cholesterol", Num(0))
        hdl == Get(latest, "hdl", Num(0))
        sys == Get(latest, "blood_pressure_systolic", Num(0))
        dia == Get(latest, "blood_pressure_diastolic", Num(0))
        many == Len(data) > 1
    IN  [glucose_latest |-> glucose,
         hba1c_latest |-> Get(latest, "hba1c", Num(0)),
         cholesterol_latest |-> chol,
         hdl_latest |-> hdl,
         ldl_latest |-> Get(latest, "ldl", Num(0)),
         triglycerides_latest |-> Get(latest, "triglycerides", Num(0)),
         bp_systolic_latest |-> sys,
         bp_diastolic_latest |-> dia,
         heart_rate_latest |-> Get(latest, "heart_rate", Num(0)),
         alt_latest |-> Get(liver, "alt", Num(0)),
         ast_latest |-> Get(liver, "ast", Num(0)),
         creatinine_latest |-> Get(kidney, "creatinine", Num(0)),
         bun_latest |-> Get(kidney, "bun", Num(0)),
         glucose_trend |-> IF many THEN _calculate_trend(data, "glucose") ELSE Num(0),
         hba1c_trend |-> IF many THEN _calculate_trend(data, "hba1c") ELSE Num(0),
         bp_systolic_trend |->
             IF many THEN _calculate_trend(data, "blood_pressure_systolic") ELSE Num(0),
         cholesterol_trend |->
             IF many THEN _calculate_trend(data, "cholesterol") ELSE Num(0),
         glucose_variability |->
             IF many /\ HasColumn(data, "glucose")
             THEN Std(Column(data, "glucose")) ELSE Num(0),
         bp_variability |->
             IF many /\ HasColumn(data, "blood_pressure_systolic")
             THEN Std(Column(data, "blood_pressure_systolic")) ELSE Num(0),
         cholesterol_hdl_ratio |-> IF Gt(hdl, Num(0)) THEN QDiv(chol, hdl) ELSE Num(0),
         pulse_pressure |-> QSub(sys, dia),
         prediabetes_flag |-> Flag(Le(Num(100), glucose) /\ Le(glucose, Num(125))),
         prehypertension_flag |-> Flag(Le(Num(120), sys) /\ Le(sys, Num(139)))]

\* The exceptions of _extract_lab_features: .get on a sub-panel that is not a
\* mapping (AttributeError), and arithmetic or ordering on a latest value that
\* is not a number (TypeError).
LabRaises(data) ==
    LET latest == data[1]
    IN  \/ ~Get(latest, "liver_enzymes", Mapping(EmptyDict)).is_mapping
        \/ ~Get(latest, "kidney_function", Mapping(EmptyDict)).is_mapping
        \/ \E k \in {"glucose", "cholesterol", "hdl", "blood_pressure_systolic",
                     "blood_pressure_diastolic"} : IsStr(Get(latest, k, Num(0)))

_extract_lab_features(data) ==
    IF data = <<>> THEN Returned(_get_default_lab_features)
    ELSE IF LabRaises(data) THEN Raised
    ELSE Returned(LabFeatures(data))

\* ------------------------------------------------------------------ lifestyle
diet_quality_map == [poor |-> 1, fair |-> 2, balanced |-> 3, excellent |-> 4]

\* Series.map(mapping).dropna(): the codes of the values the mapping knows.
RECURSIVE MapCodes(_, _)
MapCodes(s, mapping) ==
    IF s = <<>> THEN <<>>
    ELSE IF Head(s) \in DOMAIN mapping
         THEN <<Num(mapping[Head(s)])>> \o MapCodes(Tail(s), mapping)
         ELSE MapCodes(Tail(s), mapping)

\* The lambda of meal_regularity on one row: x.get('meals', {}) is the row's
\* cell, so the three lookups run on whatever the cell holds.
MealsOfRow(x) ==
    LET m == x["meals"].items
    IN  Q(CountTrue([k \in {"breakfast", "lunch", "dinner"} |-> Get(m, k, FALSE)]), 3)

\* The exception of _extract_lifestyle_features: with a 'meals' column, a row
\* whose cell is NaN (the record has no meals) or is not a mapping has no .get.
LifestyleRaises(data) ==
    /\ HasColumn(data, "meals")
    /\ \E i \in 1..Len(data) : "meals" \notin DOMAIN data[i] \/ ~data[i]["meals"].is_mapping

LifestyleFeatures(data) ==
    LET n == Len(data)
        sleep == Column(data, "sleep_hours")
        exercise == Column(data, "exercise_minutes")
        quality == Column(data, "sleep_quality")
        avg_exercise == IF HasColumn(data, "exercise_minutes") THEN Mean(exercise) ELSE Num(0)
        avg_steps == IF HasColumn(data, "steps") THEN Mean(Column(data, "steps")) ELSE Num(0)
        avg_water ==
            IF HasColumn(data, "water_intake_ml")
            THEN Mean(Column(data, "water_intake_ml")) ELSE Num(2000)
    IN  [avg_sleep_hours |-> IF HasColumn(data, "sleep_hours") THEN Mean(sleep) ELSE Num(7),
         sleep_consistency |->
             IF HasColumn(data, "sleep_hours") /\ Gt(Mean(sleep), Num(0))
             THEN OneMinusSqrt(QDiv(Variance(sleep), QMul(Mean(sleep), Mean(sleep))))
             ELSE Q(1, 2),
         poor_sleep_days |->
             Num(CountTrue([i \in DOMAIN quality |-> quality[i] = "poor"])),
         avg_exercise_minutes |-> avg_exercise,
         exercise_frequency |->
             IF HasColumn(data, "exercise_minutes")
             THEN Q(CountTrue([i \in DOMAIN exercise |-> Gt(exercise[i], Num(0))]), n)
             ELSE Num(0),
         avg_steps |-> avg_steps,
         avg_water_intake |-> avg_water,
         dehydration_risk |-> Flag(Lt(avg_water, Num(1500))),
         avg_alcohol_units |->
             IF HasColumn(data, "alcohol_units")
             THEN Mean(Column(data, "alcohol_units")) ELSE Num(0),
         smoking |-> Flag(\E i \in 1..n : Get(data[i], "smoking", FALSE)),
         diet_quality_score |->
             IF HasColumn(data, "diet_quality")
             THEN Mean(MapCodes(Column(data, "diet_quality"), diet_quality_map))
             ELSE Q(5, 2),
         meal_regularity |->
             IF HasColumn(data, "meals")
             THEN Mean([i \in 1..n |-> MealsOfRow(data[i])]) ELSE Q(4, 5),
         sedentary_lifestyle |->
             Flag(Lt(avg_steps, Num(5000)) /\ Lt(avg_exercise, Num(20)))]

_extract_lifestyle_features(data) ==
    IF data = <<>> THEN Returned(_get_default_lifestyle_features)
    ELSE IF LifestyleRaises(data) THEN Raised
    ELSE Returned(LifestyleFeatures(data))

\* ------------------------------------------------------------------ mental health
mood_map == [depressed |-> 1, low |-> 2, neutral |-> 3, good |-> 4, excellent |-> 5]
social_map == [low |-> 1, moderate |-> 2, high |-> 3]
balance_map == [poor |-> 1, fair |-> 2, good |-> 3, excellent |-> 4]

MentalFeatures(data) ==
    LET n == Len(data)
        stress == Column(data, "stress_level")
        mood == Column(data, "mood")
        avg_stress == IF HasColumn(data, "stress_level") THEN Mean(stress) ELSE Num(5)
        low_mood ==
            IF HasColumn(data, "mood")
            THEN Q(CountTrue([i \in DOMAIN mood |-> mood[i] \in {"depressed", "low"}]), n)
            ELSE Num(0)
    IN  [avg_stress_level |-> avg_stress,
         avg_anxiety_level |->
             IF HasColumn(data, "anxiety_level")
             THEN Mean(Column(data, "anxiety_level")) ELSE Num(3),
         high_stress_frequency |->
             IF HasColumn(data, "stress_level")
             THEN Q(CountTrue([i \in DOMAIN stress |-> Ge(stress[i], Num(7))]), n)
             ELSE Num(0),
         avg_mood_score |->
             IF HasColumn(data, "mood")
             THEN Mean(MapCodes(mood, mood_map)) ELSE Num(3),
         low_mood_frequency |-> low_mood,
         social_interaction_score |->
             IF HasColumn(data, "social_interaction")
             THEN Mean(MapCodes(Column(data, "social_interaction"), social_map))
             ELSE Num(2),
         work_life_balance_score |->
             IF HasColumn(data, "work_life_balance")
             THEN Mean(MapCodes(Column(data, "work_life_balance"), balance_map))
             ELSE Q(5, 2),
         chronic_stress_flag |-> Flag(Ge(avg_stress, Num(7))),
         depression_risk_flag |-> Flag(Gt(low_mood, Q(1, 2)))]

_extract_mental_health_features(data) ==
    IF data = <<>> THEN Returned(_get_default_mental_health_features)
    ELSE Returned(MentalFeatures(data))

\* ------------------------------------------------------------------ family history
\* family_history maps a condition to the list of relatives; None and {} are
\* both the empty mapping.
FamilyFeatures(fh) ==
    LET count(c) == Len(Get(fh, c, <<>>))
        d == count("diabetes")
        h == count("hypertension")
        hd == count("heart_disease")
        l == count("liver_disease")
        m == count("mental_health")
    IN  [family_diabetes |-> Num(d), family_hypertension |-> Num(h),
         family_heart_disease |-> Num(hd), family_liver_disease |-> Num(l),
         family_mental_health |-> Num(m),
         has_family_diabetes |-> Flag(d > 0), has_family_hypertension |-> Flag(h > 0),
         has_family_heart_disease |-> Flag(hd > 0),
         has_family_liver_disease |-> Flag(l > 0),
         has_family_mental_health |-> Flag(m > 0),
         genetic_risk_score |-> Q(4 * d + 3 * h + 4 * hd + 3 * l + 2 * m, 2)]

_extract_family_history_features(fh) ==
    IF DOMAIN fh = {} THEN Returned(_get_default_family_history_features)
    ELSE Returned(FamilyFeatures(fh))

\* ------------------------------------------------------------------ engineer_features
EmptyFrame == EmptyDict

\* health_data as get_all_user_health_data builds it (latest_report aside).
HealthData(lab, lifestyle, mental, family) ==
    [lab_data |-> lab, lifestyle_data |-> lifestyle, mental_health_data |-> mental,
     family_history |-> family]

\* The one-row DataFrame, as the mapping column -> value; the empty DataFrame
\* when any extractor raised.
engineer_features(health_data) ==
    LET lab == _extract_lab_features(health_data.lab_data)
        lifestyle == _extract_lifestyle_features(health_data.lifestyle_data)
        mental == _extract_mental_health_features(health_data.mental_health_data)
        family == _extract_family_history_features(health_data.family_history)
    IN  IF lab.raised \/ lifestyle.raised \/ mental.raised \/ family.raised
        THEN EmptyFrame
        ELSE family.value @@ mental.value @@ lifestyle.value @@ lab.value

\* ------------------------------------------------------------------ idle values
NoArgs == [k \in {} |-> 0]
NoScores == <<>>
NoReport == [k \in {} |-> 0]
NoResponse == [status |-> 0, body |-> "none", report |-> NoReport]

\* ------------------------------------------------------------------ risk model
\* A probability p is the integer p * PUnit.
PUnit == 100 * 1000
Pct(x) == x * 1000

Min(a, b) == IF a <= b THEN a ELSE b

disease_types == <<"diabetes", "hypertension", "liver_disease", "cardiac_risk", "mental_health">>
Diseases == {disease_types[i] : i \in DOMAIN disease_types}

\* A dict whose order counts (risk_scores, risk_assessments) is the sequence of
\* its entries in insertion order.
Entry(disease, score) == [disease |-> disease, score |-> score]
Keys(entries) == {entries[i].disease : i \in DOMAIN entries}
ScoreOf(entries, disease) ==
    entries[CHOOSE i \in DOMAIN entries : entries[i].disease = disease].score

\* features[column].values[0] if column in features else default
Cell(f, column, default) == Get(f, column, default)

\* features.get(column, [0])[0] == 1
FlagSet(f, column) == Eq(Get(f, column, Num(0)), Num(1))

\* The TypeError of ordering a value that is not a number against a number, in
\* the order in which _rule_based_prediction evaluates its conditions ('or'
\* stops at the first true operand).
RuleRaises(f, disease) ==
    LET bad(column) == IsStr(Cell(f, column, Num(0)))
    IN  CASE disease = "diabetes" ->
                \/ bad("glucose_latest")
                \/ ~Ge(Cell(f, "glucose_latest", Num(0)), Num(126)) /\ bad("hba1c_latest")
          [] disease = "hypertension" ->
                \/ bad("bp_systolic_latest")
                \/ ~Ge(Cell(f, "bp_systolic_latest", Num(0)), Num(140))
                   /\ bad("bp_diastolic_latest")
          [] disease = "liver_disease" ->
                \/ bad("alt_latest")
                \/ ~Gt(Cell(f, "alt_latest", Num(0)), Num(40)) /\ bad("ast_latest")
                \/ bad("avg_alcohol_units")
          [] disease = "cardiac_risk" ->
                bad("cholesterol_latest") \/ bad("bp_systolic_latest")
          [] disease = "mental_health" ->
                \/ bad("avg_stress_level")
                \/ ~Ge(Cell(f, "avg_stress_level", Num(5)), Num(8)) /\ bad("avg_mood_score")
                \/ bad("avg_sleep_hours")
          [] OTHER -> FALSE

\* RuleDiabetes with the two min(..., 1.0) caps left out.
RuleDiabetesUncapped(f) ==
    LET glucose == Cell(f, "glucose_latest", Num(0))
        hba1c == Cell(f, "hba1c_latest", Num(0))
        base == IF Ge(glucose, Num(126)) \/ Ge(hba1c, Q(65, 10)) THEN Pct(80)
                ELSE IF Ge(glucose, Num(100)) \/ Ge(hba1c, Q(57, 10)) THEN Pct(50)
                ELSE Pct(20)
        family == IF FlagSet(f, "has_family_diabetes") THEN base + Pct(15) ELSE base
    IN  IF FlagSet(f, "sedentary_lifestyle") THEN family + Pct(10) ELSE family

\* RuleDiabetes with > in place of >= at the four cut points.
RuleDiabetesStrict(f) ==
    LET glucose == Cell(f, "glucose_latest", Num(0))
        hba1c == Cell(f, "hba1c_latest", Num(0))
        base == IF Gt(glucose, Num(126)) \/ Gt(hba1c, Q(65, 10)) THEN Pct(80)
                ELSE IF Gt(glucose, Num(100)) \/ Gt(hba1c, Q(57, 10)) THEN Pct(50)
                ELSE Pct(20)
        family == IF FlagSet(f, "has_family_diabetes") THEN Min(base + Pct(15), PUnit) ELSE base
    IN  IF FlagSet(f, "sedentary_lifestyle") THEN Min(family + Pct(10), PUnit) ELSE family

RuleDiabetes(f) ==
    LET glucose == Cell(f, "glucose_latest", Num(0))
        hba1c == Cell(f, "hba1c_latest", Num(0))
        base == IF Ge(glucose, Num(126)) \/ Ge(hba1c, Q(65, 10)) THEN Pct(80)
                ELSE IF Ge(glucose, Num(100)) \/ Ge(hba1c, Q(57, 10)) THEN Pct(50)
                ELSE Pct(20)
        family == IF FlagSet(f, "has_family_diabetes") THEN Min(base + Pct(15), PUnit) ELSE base
    IN  IF FlagSet(f, "sedentary_lifestyle") THEN Min(family + Pct(10), PUnit) ELSE family

RuleHypertension(f) ==
    LET bp_sys == Cell(f, "bp_systolic_latest", Num(0))
        bp_dia == Cell(f, "bp_diastolic_latest", Num(0))
        base == IF Ge(bp_sys, Num(140)) \/ Ge(bp_dia, Num(90)) THEN Pct(80)
                ELSE IF Ge(bp_sys, Num(130)) \/ Ge(bp_dia, Num(85)) THEN Pct(50)
                ELSE Pct(20)
    IN  IF FlagSet(f, "has_family_hypertension") THEN Min(base + Pct(15), PUnit) ELSE base

RuleLiver(f) ==
    LET alt == Cell(f, "alt_latest", Num(0))
        ast == Cell(f, "ast_latest", Num(0))
        base == IF Gt(alt, Num(40)) \/ Gt(ast, Num(40)) THEN Pct(60)
                ELSE IF Gt(alt, Num(30)) \/ Gt(ast, Num(30)) THEN Pct(40)
                ELSE Pct(15)
    IN  IF Gt(Cell(f, "avg_alcohol_units", Num(0)), Num(2))
        THEN Min(base + Pct(20), PUnit) ELSE base

\* The cardiac rule capped at 0.7, below the configured 'high' cut point.
RuleCardiacLowCap(f) ==
    LET risk_factors ==
            CountTrue(<<Gt(Cell(f, "cholesterol_latest", Num(0)), Num(240)),
                        Gt(Cell(f, "bp_systolic_latest", Num(0)), Num(140)),
                        Eq(Cell(f, "smoking", Num(0)), Num(1)),
                        FlagSet(f, "has_family_heart_disease")>>)
    IN  Min(Pct(20) + risk_factors * Pct(15), Pct(70))

RuleCardiac(f) ==
    LET risk_factors ==
            CountTrue(<<Gt(Cell(f, "cholesterol_latest", Num(0)), Num(240)),
                        Gt(Cell(f, "bp_systolic_latest", Num(0)), Num(140)),
                        Eq(Cell(f, "smoking", Num(0)), Num(1)),
                        FlagSet(f, "has_family_heart_disease")>>)
    IN  Min(Pct(20) + risk_factors * Pct(15), Pct(90))

RuleMental(f) ==
    LET stress == Cell(f, "avg_stress_level", Num(5))
        mood == Cell(f, "avg_mood_score", Num(3))
        base == IF Ge(stress, Num(8)) \/ Le(mood, Num(2)) THEN Pct(70)
                ELSE IF Ge(stress, Num(6)) \/ Le(mood, Q(5, 2)) THEN Pct(50)
                ELSE Pct(25)
    IN  IF Lt(Cell(f, "avg_sleep_hours", Num(7)), Num(6))
        THEN Min(base + Pct(15), PUnit) ELSE base

\* _rule_based_prediction whose except branch returns risk_score as it stood
\* (0.0) instead of 0.5.
RuleBasedNoNeutral(f, disease) ==
    IF RuleRaises(f, disease) THEN 0
    ELSE CASE disease = "diabetes" -> RuleDiabetes(f)
           [] disease = "hypertension" -> RuleHypertension(f)
           [] disease = "liver_disease" -> RuleLiver(f)
           [] disease = "cardiac_risk" -> RuleCardiac(f)
           [] disease = "mental_health" -> RuleMental(f)
           [] OTHER -> 0

\* _rule_based_prediction: 0.5 when the rules raise, 0.0 for an unknown disease.
_rule_based_prediction(f, disease) ==
    IF RuleRaises(f, disease) THEN Pct(50)
    ELSE CASE disease = "diabetes" -> RuleDiabetes(f)
           [] disease = "hypertension" -> RuleHypertension(f)
           [] disease = "liver_disease" -> RuleLiver(f)
           [] disease = "cardiac_risk" -> RuleCardiac(f)
           [] disease = "mental_health" -> RuleMental(f)
           [] OTHER -> 0

\* self.models / self.scalers of one MultiDiseaseRiskModel, per disease:
\*   fitted  the classifier has classes_ (a trained pickle was loaded)
\*   raises  scaler.transform or predict_proba raises on these features
\*   proba   float(proba[0][1]) when they do not
ModelState(fitted, raises, proba) == [fitted |-> fitted, raises |-> raises, proba |-> proba]
Unfitted == ModelState(FALSE, FALSE, 0)

\* PredictFrom with the try/except around the whole loop: the first failure of
\* a trained path ends the loop.
RECURSIVE PredictFromOuterTry(_, _, _)
PredictFromOuterTry(f, models, i) ==
    IF i > Len(disease_types) THEN NoScores
    ELSE LET disease == disease_types[i]
         IN  IF ~models[disease].fitted
             THEN <<Entry(disease, _rule_based_prediction(f, disease))>>
                      \o PredictFromOuterTry(f, models, i + 1)
             ELSE IF models[disease].raises THEN NoScores
             ELSE <<Entry(disease, models[disease].proba)>>
                      \o PredictFromOuterTry(f, models, i + 1)

\* One pass of the loop of predict_risk_scores over disease_types[i..]: its
\* try/except sits inside the loop.
RECURSIVE PredictFrom(_, _, _)
PredictFrom(f, models, i) ==
    IF i > Len(disease_types) THEN NoScores
    ELSE LET disease == disease_types[i]
             score == IF ~models[disease].fitted THEN _rule_based_prediction(f, disease)
                      ELSE IF models[disease].raises THEN _rule_based_prediction(f, disease)
                      ELSE models[disease].proba
         IN  <<Entry(disease, score)>> \o PredictFrom(f, models, i + 1)

predict_risk_scores(f, models) == PredictFrom(f, models, 1)

\* ------------------------------------------------------------------ scoring engine
\* A percentage with two decimals is the integer percentage * 100.
Percent(x) == x * 100

\* round(n / d, 0) for n >= 0 and d > 0: Python rounds a tie to the even neighbour.
RoundHalfEvenDiv(n, d) ==
    LET q == n \div d
        r == n % d
    IN  IF 2 * r < d THEN q
        ELSE IF 2 * r > d THEN q + 1
        ELSE IF q % 2 = 0 THEN q ELSE q + 1

\* Config.RISK_THRESHOLDS
RISK_THRESHOLDS ==
    [diabetes |-> [low |-> Pct(30), medium |-> Pct(50), high |-> Pct(70)],
     hypertension |-> [low |-> Pct(30), medium |-> Pct(50), high |-> Pct(70)],
     liver_disease |-> [low |-> Pct(25), medium |-> Pct(45), high |-> Pct(65)],
     cardiac_risk |-> [low |-> Pct(35), medium |-> Pct(55), high |-> Pct(75)],
     mental_health |-> [low |-> Pct(30), medium |-> Pct(50), high |-> Pct(70)]]

\* {'low': 0.3, 'medium': 0.5, 'high': 0.7}
DefaultThresholds == [low |-> Pct(30), medium |-> Pct(50), high |-> Pct(70)]

\* The KeyError of thresholds[...] for a cut point the entry lacks, at the
\* comparison that reads it.
LevelRaises(score, disease, risk_thresholds) ==
    LET thresholds == Get(risk_thresholds, disease, DefaultThresholds)
    IN  \/ "low" \notin DOMAIN thresholds
        \/ /\ ~(score < thresholds["low"])
           /\ \/ "medium" \notin DOMAIN thresholds
              \/ ~(score < thresholds["medium"]) /\ "high" \notin DOMAIN thresholds

\* _get_risk_level with <= in place of < at every cut point.
GetRiskLevelInclusive(score, disease, risk_thresholds) ==
    LET thresholds == Get(risk_thresholds, disease, DefaultThresholds)
    IN  IF score <= thresholds["low"] THEN "low"
        ELSE IF score <= thresholds["medium"] THEN "medium"
        ELSE IF score <= thresholds["high"] THEN "high"
        ELSE "very_high"

\* RiskScoringEngine._get_risk_level, self.risk_thresholds passed along.
_get_risk_level(score, disease, risk_thresholds) ==
    LET thresholds == Get(risk_thresholds, disease, DefaultThresholds)
    IN  IF score < thresholds["low"] THEN "low"
        ELSE IF score < thresholds["medium"] THEN "medium"
        ELSE IF score < thresholds["high"] THEN "high"
        ELSE "very_high"

\* MultiDiseaseRiskModel.get_risk_level
get_risk_level(risk_score, disease, thresholds) ==
    LET disease_thresholds == Get(thresholds, disease, DefaultThresholds)
    IN  IF risk_score < disease_thresholds["low"] THEN "low"
        ELSE IF risk_score < disease_thresholds["medium"] THEN "medium"
        ELSE IF risk_score < disease_thresholds["high"] THEN "high"
        ELSE "very_high"

\* features.get(column, 0)
Feat(f, column) == Get(f, column, Num(0))

\* Ordering a feature that is not a number against a number raises TypeError.
Bad(f, column) == IsStr(Feat(f, column))

\* The phrases whose condition holds, in the order of the pairs <<condition, phrase>>.
RECURSIVE Chosen(_)
Chosen(pairs) ==
    IF pairs = <<>> THEN <<>>
    ELSE (IF Head(pairs)[1] THEN <<Head(pairs)[2]>> ELSE <<>>) \o Chosen(Tail(pairs))

key_features ==
    <<"glucose_latest", "bp_systolic_latest", "avg_sleep_hours", "avg_exercise_minutes",
      "avg_stress_level">>

\* sum(1 for feat in feature_list if features.get(feat, 0) > 0)
Available(f, feature_list) ==
    CountTrue([i \in DOMAIN feature_list |-> Gt(Feat(f, feature_list[i]), Num(0))])

AvailableRaises(f, feature_list) == \E i \in DOMAIN feature_list : Bad(f, feature_list[i])

\* completeness >= 0.8 and >= 0.5 of available / len(key_features)
_calculate_confidence(f) ==
    LET available == Available(f, key_features)
    IN  IF 10 * available >= 8 * Len(key_features) THEN "high"
        ELSE IF 10 * available >= 5 * Len(key_features) THEN "medium"
        ELSE "low"

FactorsRaise(disease, f) ==
    CASE disease = "diabetes" ->
            Bad(f, "glucose_latest") \/ Bad(f, "hba1c_latest") \/ Bad(f, "diet_quality_score")
      [] disease = "hypertension" ->
            Bad(f, "bp_systolic_latest") \/ Bad(f, "avg_stress_level")
                \/ Bad(f, "avg_alcohol_units")
      [] disease = "liver_disease" ->
            \/ Bad(f, "alt_latest")
            \/ ~Gt(Feat(f, "alt_latest"), Num(30)) /\ Bad(f, "ast_latest")
            \/ Bad(f, "avg_alcohol_units")
            \/ Bad(f, "diet_quality_score")
      [] disease = "cardiac_risk" ->
            Bad(f, "cholesterol_latest") \/ Bad(f, "bp_systolic_latest")
                \/ Bad(f, "exercise_frequency")
      [] disease = "mental_health" ->
            Bad(f, "avg_stress_level") \/ Bad(f, "avg_mood_score") \/ Bad(f, "avg_sleep_hours")
                \/ Bad(f, "social_interaction_score") \/ Bad(f, "work_life_balance_score")
      [] OTHER -> FALSE

\* _identify_risk_factors returning risk_factors as it stands, without the
\* sentence for an empty list.
IdentifyRiskFactorsNoFallback(disease, f) ==
    LET risk_factors ==
            CASE disease = "diabetes" ->
                    Chosen(<<
                        <<Ge(Feat(f, "glucose_latest"), Num(100)), "Elevated glucose levels">>,
                        <<Ge(Feat(f, "hba1c_latest"), Q(57, 10)), "Elevated HbA1c">>,
                        <<Eq(Feat(f, "has_family_diabetes"), Num(1)),
                          "Family history of diabetes">>,
                        <<Eq(Feat(f, "sedentary_lifestyle"), Num(1)), "Sedentary lifestyle">>,
                        <<Lt(Feat(f, "diet_quality_score"), Q(5, 2)), "Poor diet quality">> >>)
              [] disease = "hypertension" ->
                    Chosen(<<
                        <<Ge(Feat(f, "bp_systolic_latest"), Num(130)),
                          "Elevated blood pressure">>,
                        <<Eq(Feat(f, "has_family_hypertension"), Num(1)),
                          "Family history of hypertension">>,
                        <<Ge(Feat(f, "avg_stress_level"), Num(7)), "High stress levels">>,
                        <<Gt(Feat(f, "avg_alcohol_units"), Num(2)),
                          "Excessive alcohol consumption">>,
                        <<Eq(Feat(f, "smoking"), Num(1)), "Smoking">> >>)
              [] disease = "liver_disease" ->
                    Chosen(<<
                        <<Gt(Feat(f, "alt_latest"), Num(30)) \/ Gt(Feat(f, "ast_latest"), Num(30)),
                          "Elevated liver enzymes">>,
                        <<Gt(Feat(f, "avg_alcohol_units"), Num(2)),
                          "Excessive alcohol consumption">>,
                        <<Lt(Feat(f, "diet_quality_score"), Q(5, 2)), "Poor diet">> >>)
              [] disease = "cardiac_risk" ->
                    Chosen(<<
                        <<Gt(Feat(f, "cholesterol_latest"), Num(200)), "Elevated cholesterol">>,
                        <<Ge(Feat(f, "bp_systolic_latest"), Num(130)), "High blood pressure">>,
                        <<Eq(Feat(f, "smoking"), Num(1)), "Smoking">>,
                        <<Eq(Feat(f, "has_family_heart_disease"), Num(1)),
                          "Family history of heart disease">>,
                        <<Lt(Feat(f, "exercise_frequency"), Q(3, 10)),
                          "Insufficient exercise">> >>)
              [] disease = "mental_health" ->
                    Chosen(<<
                        <<Ge(Feat(f, "avg_stress_level"), Num(7)), "Chronic high stress">>,
                        <<Le(Feat(f, "avg_mood_score"), Q(5, 2)), "Low mood">>,
                        <<Lt(Feat(f, "avg_sleep_hours"), Num(6)), "Sleep deprivation">>,
                        <<Le(Feat(f, "social_interaction_score"), Num(1)), "Social isolation">>,
                        <<Le(Feat(f, "work_life_balance_score"), Num(2)),
                          "Poor work-life balance">> >>)
              [] OTHER -> <<>>
    IN  risk_factors

_identify_risk_factors(disease, f) ==
    LET risk_factors ==
            CASE disease = "diabetes" ->
                    Chosen(<<
                        <<Ge(Feat(f, "glucose_latest"), Num(100)), "Elevated glucose levels">>,
                        <<Ge(Feat(f, "hba1c_latest"), Q(57, 10)), "Elevated HbA1c">>,
                        <<Eq(Feat(f, "has_family_diabetes"), Num(1)),
                          "Family history of diabetes">>,
                        <<Eq(Feat(f, "sedentary_lifestyle"), Num(1)), "Sedentary lifestyle">>,
                        <<Lt(Feat(f, "diet_quality_score"), Q(5, 2)), "Poor diet quality">> >>)
              [] disease = "hypertension" ->
                    Chosen(<<
                        <<Ge(Feat(f, "bp_systolic_latest"), Num(130)),
                          "Elevated blood pressure">>,
                        <<Eq(Feat(f, "has_family_hypertension"), Num(1)),
                          "Family history of hypertension">>,
                        <<Ge(Feat(f, "avg_stress_level"), Num(7)), "High stress levels">>,
                        <<Gt(Feat(f, "avg_alcohol_units"), Num(2)),
                          "Excessive alcohol consumption">>,
                        <<Eq(Feat(f, "smoking"), Num(1)), "Smoking">> >>)
              [] disease = "liver_disease" ->
                    Chosen(<<
                        <<Gt(Feat(f, "alt_latest"), Num(30)) \/ Gt(Feat(f, "ast_latest"), Num(30)),
                          "Elevated liver enzymes">>,
                        <<Gt(Feat(f, "avg_alcohol_units"), Num(2)),
                          "Excessive alcohol consumption">>,
                        <<Lt(Feat(f, "diet_quality_score"), Q(5, 2)), "Poor diet">> >>)
              [] disease = "cardiac_risk" ->
                    Chosen(<<
                        <<Gt(Feat(f, "cholesterol_latest"), Num(200)), "Elevated cholesterol">>,
                        <<Ge(Feat(f, "bp_systolic_latest"), Num(130)), "High blood pressure">>,
                        <<Eq(Feat(f, "smoking"), Num(1)), "Smoking">>,
                        <<Eq(Feat(f, "has_family_heart_disease"), Num(1)),
                          "Family history of heart disease">>,
                        <<Lt(Feat(f, "exercise_frequency"), Q(3, 10)),
                          "Insufficient exercise">> >>)
              [] disease = "mental_health" ->
                    Chosen(<<
                        <<Ge(Feat(f, "avg_stress_level"), Num(7)), "Chronic high stress">>,
                        <<Le(Feat(f, "avg_mood_score"), Q(5, 2)), "Low mood">>,
                        <<Lt(Feat(f, "avg_sleep_hours"), Num(6)), "Sleep deprivation">>,
                        <<Le(Feat(f, "social_interaction_score"), Num(1)), "Social isolation">>,
                        <<Le(Feat(f, "work_life_balance_score"), Num(2)),
                          "Poor work-life balance">> >>)
              [] OTHER -> <<>>
    IN  IF risk_factors # <<>> THEN risk_factors
        ELSE <<"No significant risk factors identified">>

\* self.recommendations_db, as _initialize_recommendations returns it
recommendations_db ==
    [diabetes |->
         [low |->
             <<"Maintain healthy weight through balanced diet",
               "Exercise regularly (150 minutes per week)",
               "Monitor blood sugar annually">>,
          medium |->
             <<"Consult with healthcare provider for glucose screening",
               "Adopt low-glycemic diet",
               "Increase physical activity",
               "Monitor blood sugar every 6 months">>,
          high |->
             <<"Immediate consultation with endocrinologist",
               "Comprehensive glucose tolerance testing",
               "Create diabetes prevention plan",
               "Monitor blood sugar monthly">>,
          very_high |->
             <<"Urgent medical evaluation required",
               "Immediate lifestyle intervention",
               "Consider medication consultation",
               "Weekly glucose monitoring">>],
     hypertension |->
         [low |->
             <<"Maintain healthy blood pressure through diet",
               "Regular cardiovascular exercise",
               "Limit sodium intake">>,
          medium |->
             <<"Monitor blood pressure weekly",
               "Reduce sodium to <2300mg/day",
               "Consult with healthcare provider",
               "Manage stress through relaxation techniques">>,
          high |->
             <<"Immediate medical consultation",
               "Daily blood pressure monitoring",
               "Strict DASH diet adherence",
               "Medication evaluation">>,
          very_high |->
             <<"Emergency medical evaluation",
               "Immediate blood pressure management",
               "Comprehensive cardiovascular assessment",
               "Multiple daily BP measurements">>],
     liver_disease |->
         [low |->
             <<"Maintain liver health through balanced diet",
               "Limit alcohol consumption",
               "Annual liver function tests">>,
          medium |->
             <<"Consult hepatologist for evaluation",
               "Reduce or eliminate alcohol",
               "Liver function tests every 6 months",
               "Consider hepatitis screening">>,
          high |->
             <<"Immediate hepatology consultation",
               "Comprehensive liver assessment",
               "Abstain from alcohol",
               "Quarterly liver monitoring">>,
          very_high |->
             <<"Urgent hepatology evaluation",
               "Complete abstinence from alcohol",
               "Imaging studies (ultrasound/MRI)",
               "Monthly liver function monitoring">>],
     cardiac_risk |->
         [low |->
             <<"Maintain heart-healthy diet",
               "Regular aerobic exercise",
               "Annual cardiovascular check-up">>,
          medium |->
             <<"Cardiology consultation",
               "Lipid profile every 6 months",
               "Increase cardiovascular exercise",
               "Consider cardiac calcium scoring">>,
          high |->
             <<"Immediate cardiology evaluation",
               "Comprehensive cardiac workup",
               "Aggressive risk factor management",
               "Consider stress test">>,
          very_high |->
             <<"Emergency cardiac assessment",
               "Immediate intervention planning",
               "Medication optimization",
               "Close cardiac monitoring">>],
     mental_health |->
         [low |->
             <<"Practice stress management techniques",
               "Maintain social connections",
               "Ensure adequate sleep">>,
          medium |->
             <<"Consider counseling or therapy",
               "Develop coping strategies",
               "Regular mental health check-ins",
               "Improve work-life balance">>,
          high |->
             <<"Immediate mental health professional consultation",
               "Comprehensive psychological assessment",
               "Consider therapy or medication",
               "Build strong support network">>,
          very_high |->
             <<"Urgent mental health intervention",
               "Immediate psychiatric evaluation",
               "Crisis support resources",
               "Intensive treatment consideration">>]]

PersonalizedRaise(disease, f) ==
    CASE disease = "diabetes" -> Bad(f, "diet_quality_score")
      [] disease = "hypertension" -> Bad(f, "avg_stress_level") \/ Bad(f, "avg_alcohol_units")
      [] disease = "mental_health" ->
            Bad(f, "avg_sleep_hours") \/ Bad(f, "social_interaction_score")
      [] OTHER -> FALSE

_get_personalized_recommendations(disease, f) ==
    CASE disease = "diabetes" ->
            Chosen(<<
                <<Eq(Feat(f, "sedentary_lifestyle"), Num(1)),
                  "Increase physical activity to at least 150 minutes per week">>,
                <<Lt(Feat(f, "diet_quality_score"), Q(5, 2)),
                  "Consult a nutritionist for a diabetes-prevention diet plan">> >>)
      [] disease = "hypertension" ->
            Chosen(<<
                <<Ge(Feat(f, "avg_stress_level"), Num(7)),
                  "Practice stress-reduction techniques like meditation or yoga">>,
                <<Gt(Feat(f, "avg_alcohol_units"), Num(2)),
                  "Reduce alcohol consumption to recommended limits">> >>)
      [] disease = "mental_health" ->
            Chosen(<<
                <<Lt(Feat(f, "avg_sleep_hours"), Num(6)),
                  "Improve sleep hygiene and aim for 7-9 hours of sleep">>,
                <<Le(Feat(f, "social_interaction_score"), Num(1)),
                  "Increase social connections and community engagement">> >>)
      [] OTHER -> <<>>

\* s[:n]
Take(s, n) == SubSeq(s, 1, Min(n, Len(s)))

\* _get_recommendations without the [:5].
GetRecommendationsUncut(disease, risk_level, f) ==
    Get(Get(recommendations_db, disease, EmptyDict), risk_level, <<>>)
        \o _get_personalized_recommendations(disease, f)

_get_recommendations(disease, risk_level, f) ==
    LET base_recs == Get(Get(recommendations_db, disease, EmptyDict), risk_level, <<>>)
        personalized == _get_personalized_recommendations(disease, f)
    IN  Take(base_recs \o personalized, 5)

\* disease.replace("_", " ") on the disease names that occur
UnderscoreNames ==
    [liver_disease |-> "liver disease", cardiac_risk |-> "cardiac risk",
     mental_health |-> "mental health"]
ReplaceUnderscore(disease) == Get(UnderscoreNames, disease, disease)

\* sorted(..., key=risk_score, reverse=True): stable, so entries of equal
\* risk_score keep their insertion order.
RECURSIVE SortedByScore(_)
SortedByScore(entries) ==
    IF entries = <<>> THEN <<>>
    ELSE LET x == entries[Len(entries)]
             s == SortedByScore(SubSeq(entries, 1, Len(entries) - 1))
             k == Cardinality({i \in DOMAIN s : s[i].risk_score >= x.risk_score})
         IN  SubSeq(s, 1, k) \o <<x>> \o SubSeq(s, k + 1, Len(s))

HighAction(a) ==
    [disease |-> a.disease, risk_score |-> a.risk_score,
     action |-> <<"Consult a healthcare provider for ", ReplaceUnderscore(a.disease),
                  " assessment">>,
     urgency |-> "high"]

MediumAction(a) ==
    [disease |-> a.disease, risk_score |-> a.risk_score,
     action |-> <<"Monitor ", ReplaceUnderscore(a.disease), " risk factors">>,
     urgency |-> "medium"]

\* The second loop of _prioritize_actions over sorted_risks[i..].
RECURSIVE AddMedium(_, _, _)
AddMedium(sorted_risks, i, priority_actions) ==
    IF i > Len(sorted_risks) THEN priority_actions
    ELSE IF sorted_risks[i].risk_level = "medium" /\ Len(priority_actions) < 5
         THEN AddMedium(sorted_risks, i + 1, Append(priority_actions, MediumAction(sorted_risks[i])))
         ELSE AddMedium(sorted_risks, i + 1, priority_actions)

\* _prioritize_actions with the assessments taken in insertion order, unsorted.
PrioritizeUnsorted(risk_assessments) ==
    LET high == Chosen([i \in DOMAIN risk_assessments |->
                           <<risk_assessments[i].risk_level \in {"high", "very_high"},
                             HighAction(risk_assessments[i])>>])
    IN  AddMedium(risk_assessments, 1, high)

_prioritize_actions(risk_assessments) ==
    LET sorted_risks == SortedByScore(risk_assessments)
        high == Chosen([i \in DOMAIN sorted_risks |->
                           <<sorted_risks[i].risk_level \in {"high", "very_high"},
                             HighAction(sorted_risks[i])>>])
    IN  AddMedium(sorted_risks, 1, high)

DetailedRaise(f) ==
    Bad(f, "avg_sleep_hours") \/ Bad(f, "diet_quality_score") \/ Bad(f, "glucose_latest")
        \/ Bad(f, "bp_systolic_latest")

_generate_detailed_recommendations(risk_assessments, f) ==
    [lifestyle |->
        Chosen(<<
            <<Eq(Feat(f, "sedentary_lifestyle"), Num(1)),
              "Engage in regular physical activity (150 min/week)">>,
            <<Lt(Feat(f, "avg_sleep_hours"), Num(7)),
              "Improve sleep duration to 7-9 hours per night">>,
            <<Lt(Feat(f, "diet_quality_score"), Num(3)),
              "Adopt a balanced, nutrient-rich diet">> >>),
     medical |->
        Chosen([i \in DOMAIN risk_assessments |->
                   <<risk_assessments[i].risk_level \in {"high", "very_high"},
                     <<"Schedule consultation with healthcare provider for ",
                       ReplaceUnderscore(risk_assessments[i].disease)>> >>]),
     monitoring |->
        Chosen(<<
            <<Ge(Feat(f, "glucose_latest"), Num(100)), "Monitor blood glucose levels monthly">>,
            <<Ge(Feat(f, "bp_systolic_latest"), Num(130)), "Track blood pressure daily">> >>),
     prevention |->
        <<"Maintain regular health check-ups",
          "Keep detailed health records and symptom diary">>]

KeyFactor(factor, severity, modifiable) ==
    [factor |-> factor, severity |-> severity, modifiable |-> modifiable]

_identify_key_risk_factors(f) ==
    Chosen(<<
        <<Eq(Feat(f, "has_family_diabetes"), Num(1))
              \/ Eq(Feat(f, "has_family_hypertension"), Num(1)),
          KeyFactor("Genetic predisposition", "high", FALSE)>>,
        <<Eq(Feat(f, "sedentary_lifestyle"), Num(1)),
          KeyFactor("Sedentary lifestyle", "medium", TRUE)>>,
        <<Eq(Feat(f, "smoking"), Num(1)), KeyFactor("Smoking", "very_high", TRUE)>>,
        <<Ge(Feat(f, "avg_stress_level"), Num(7)),
          KeyFactor("Chronic stress", "high", TRUE)>> >>)

categories ==
    [lab_data |-> <<"glucose_latest", "bp_systolic_latest", "cholesterol_latest">>,
     lifestyle_data |-> <<"avg_sleep_hours", "avg_exercise_minutes", "avg_steps">>,
     mental_health |-> <<"avg_stress_level", "avg_mood_score">>,
     family_history |-> <<"has_family_diabetes", "has_family_hypertension">>]

\* round((available / len(feature_list)) * 100, 2) per category
_assess_data_completeness(f) ==
    [category \in DOMAIN categories |->
        RoundHalfEvenDiv(Percent(100) * Available(f, categories[category]),
                         Len(categories[category]))]

CompletenessRaises(f) == \E category \in DOMAIN categories : AvailableRaises(f, categories[category])

\* max(...) of the risk scores; called on at least one assessment
MaxRiskScore(risk_assessments) ==
    CHOOSE m \in {risk_assessments[i].risk_score : i \in DOMAIN risk_assessments} :
        \A i \in DOMAIN risk_assessments : risk_assessments[i].risk_score <= m

\* _suggest_next_assessment with exclusive cut points.
SuggestNextAssessmentStrict(risk_assessments) ==
    LET max_risk == MaxRiskScore(risk_assessments)
    IN  IF max_risk > Percent(70) THEN "1 month"
        ELSE IF max_risk > Percent(50) THEN "3 months"
        ELSE "6 months"

\* _suggest_next_assessment with the monthly review starting at 75.
SuggestNextAssessmentLate(risk_assessments) ==
    LET max_risk == MaxRiskScore(risk_assessments)
    IN  IF max_risk >= Percent(75) THEN "1 month"
        ELSE IF max_risk >= Percent(50) THEN "3 months"
        ELSE "6 months"

_suggest_next_assessment(risk_assessments) ==
    LET max_risk == MaxRiskScore(risk_assessments)
    IN  IF max_risk >= Percent(70) THEN "1 month"
        ELSE IF max_risk >= Percent(50) THEN "3 months"
        ELSE "6 months"

\* total_risk after the loop over risk_scores.items()
RECURSIVE TotalRisk(_)
TotalRisk(scores) == IF scores = <<>> THEN 0 ELSE Head(scores).score + TotalRisk(Tail(scores))

\* The assessment generate_risk_report builds for one entry of risk_scores.
Assessment(disease, score, f, risk_thresholds) ==
    LET risk_level == _get_risk_level(score, disease, risk_thresholds)
    IN  [disease |-> disease,
         risk_score |-> RoundHalfEvenDiv(score, 10),
         risk_level |-> risk_level,
         confidence |-> _calculate_confidence(f),
         contributing_factors |-> _identify_risk_factors(disease, f),
         recommendations |-> _get_recommendations(disease, risk_level, f)]

\* Some statement inside the try block of generate_risk_report raises: a
\* KeyError of a missing cut point, a TypeError of a feature that is not a
\* number, the ZeroDivisionError of len(risk_scores) == 0.
ReportRaises(scores, f, risk_thresholds) ==
    \/ \E i \in DOMAIN scores :
          \/ LevelRaises(scores[i].score, scores[i].disease, risk_thresholds)
          \/ AvailableRaises(f, key_features)
          \/ FactorsRaise(scores[i].disease, f)
          \/ PersonalizedRaise(scores[i].disease, f)
    \/ Len(scores) = 0
    \/ DetailedRaise(f)
    \/ Bad(f, "avg_stress_level")
    \/ CompletenessRaises(f)

\* The report literal generate_risk_report starts from.
BlankReport(user_profile, now) ==
    [user_id |-> Get(user_profile, "uid", ""),
     user_name |-> Get(user_profile, "name", ""),
     report_date |-> now,
     risk_assessments |-> <<>>,
     overall_risk_score |-> 0,
     priority_actions |-> <<>>,
     detailed_recommendations |-> EmptyDict,
     key_risk_factors |-> <<>>]

\* generate_risk_report without its try/except: what the report holds when a
\* statement raises is handed to the caller.
GenerateRiskReportUnguarded(scores, f, user_profile, risk_thresholds, now) ==
    IF ReportRaises(scores, f, risk_thresholds) THEN BlankReport(user_profile, now)
    ELSE LET risk_assessments ==
                 [i \in DOMAIN scores |->
                     Assessment(scores[i].disease, scores[i].score, f, risk_thresholds)]
             total_risk == TotalRisk(scores)
         IN  [risk_assessments |-> risk_assessments,
              overall_risk_score |-> RoundHalfEvenDiv(total_risk, 10 * Len(scores)),
              priority_actions |-> _prioritize_actions(risk_assessments),
              detailed_recommendations |->
                  _generate_detailed_recommendations(risk_assessments, f),
              key_risk_factors |-> _identify_key_risk_factors(f),
              data_completeness |-> _assess_data_completeness(f),
              next_assessment_date |-> _suggest_next_assessment(risk_assessments)]
             @@ BlankReport(user_profile, now)

\* generate_risk_report dividing the total by the number of configured
\* diseases instead of the number of scores it was given.
GenerateRiskReportFixedDivisor(scores, f, user_profile, risk_thresholds, now) ==
    IF ReportRaises(scores, f, risk_thresholds) THEN NoReport
    ELSE LET r == GenerateRiskReportUnguarded(scores, f, user_profile, risk_thresholds, now)
         IN  [overall_risk_score |->
                  RoundHalfEvenDiv(TotalRisk(scores), 10 * Len(disease_types))] @@ r

\* generate_risk_report listing a consultation for every assessed disease.
GenerateRiskReportAllMedical(scores, f, user_profile, risk_thresholds, now) ==
    IF ReportRaises(scores, f, risk_thresholds) THEN NoReport
    ELSE LET r == GenerateRiskReportUnguarded(scores, f, user_profile, risk_thresholds, now)
             medical == [i \in DOMAIN scores |->
                            <<"Schedule consultation with healthcare provider for ",
                              ReplaceUnderscore(scores[i].disease)>>]
         IN  [detailed_recommendations |->
                  [r.detailed_recommendations EXCEPT !.medical = medical]] @@ r

\* generate_risk_report giving next_assessment_date as a date counted from the
\* report's own timestamp.
GenerateRiskReportDated(scores, f, user_profile, risk_thresholds, now) ==
    IF ReportRaises(scores, f, risk_thresholds) THEN NoReport
    ELSE LET r == GenerateRiskReportUnguarded(scores, f, user_profile, risk_thresholds, now)
         IN  [next_assessment_date |-> <<now, "+", r.next_assessment_date>>] @@ r

\* RiskScoringEngine(risk_thresholds).generate_risk_report(risk_scores, features,
\* user_profile) at datetime.now() = now: {} when a statement raises.
generate_risk_report(scores, f, user_profile, risk_thresholds, now) ==
    IF ReportRaises(scores, f, risk_thresholds) THEN NoReport
    ELSE LET risk_assessments ==
                 [i \in DOMAIN scores |->
                     Assessment(scores[i].disease, scores[i].score, f, risk_thresholds)]
             total_risk == TotalRisk(scores)
         IN  [risk_assessments |-> risk_assessments,
              overall_risk_score |-> RoundHalfEvenDiv(total_risk, 10 * Len(scores)),
              priority_actions |-> _prioritize_actions(risk_assessments),
              detailed_recommendations |->
                  _generate_detailed_recommendations(risk_assessments, f),
              key_risk_factors |-> _identify_key_risk_factors(f),
              data_completeness |-> _assess_data_completeness(f),
              next_assessment_date |-> _suggest_next_assessment(risk_assessments)]
             @@ BlankReport(user_profile, now)

\* ------------------------------------------------------------------ model loader
\* risk_prob_predictor.get_model, called by the request threads of the server
\* (app.run serves each request in its own thread). A caller runs get_model one
\* statement at a time; another caller may run between any two statements.
MaxCallers == 3

Callers == 1..MaxCallers

None == "None"

\* The object the k-th pickle.load of the model file builds.
Artifact(k) == <<"artifact", k>>

\* No get_model call in flight and the module freshly imported: _MODEL = None.
LoaderIdle ==
    /\ _MODEL = None
    /\ model_file = FALSE
    /\ loads = 0
    /\ pc = <<>>
    /\ frame = <<>>

InitLoader ==
    /\ lab_data = <<>>
    /\ lifestyle_data = <<>>
    /\ mental_health_data = <<>>
    /\ family_history = [c \in {} |-> <<>>]
    /\ risk_reports = <<>>
    /\ clock = 0
    /\ call = "none"
    /\ args = NoArgs
    /\ features = EmptyFrame
    /\ risk_scores = NoScores
    /\ report = NoReport
    /\ ret = 0
    /\ response = NoResponse
    /\ _MODEL = None
    /\ model_file \in BOOLEAN
    /\ loads = 0
    /\ pc = [t \in Callers |-> "called"]
    /\ frame = [t \in Callers |-> [loaded |-> None, result |-> None]]

\* if _MODEL is not None: return _MODEL
CheckCache(t) ==
    /\ pc[t] = "called"
    /\ IF _MODEL # None
       THEN /\ frame' = [frame EXCEPT ![t].result = _MODEL]
            /\ pc' = [pc EXCEPT ![t] = "returned"]
       ELSE /\ pc' = [pc EXCEPT ![t] = "find"]
            /\ UNCHANGED frame
    /\ UNCHANGED <<_MODEL, model_file, loads, pipelineVars>>

\* get_model remembering in _MODEL that the file was missing.
FindModelNegativeCache(t) ==
    /\ pc[t] = "find"
    /\ pc' = [pc EXCEPT ![t] = IF model_file THEN "load" ELSE "raised"]
    /\ _MODEL' = IF model_file THEN _MODEL ELSE "missing"
    /\ UNCHANGED <<model_file, loads, frame, pipelineVars>>

\* model_path = _default_model_path(); FileNotFoundError unless the file exists
FindModel(t) ==
    /\ pc[t] = "find"
    /\ pc' = [pc EXCEPT ![t] = IF model_file THEN "load" ELSE "raised"]
    /\ UNCHANGED <<_MODEL, model_file, loads, frame, pipelineVars>>

\* with open(model_path, 'rb') as f: pickle.load(f)
LoadPickle(t) ==
    /\ pc[t] = "load"
    /\ loads' = loads + 1
    /\ frame' = [frame EXCEPT ![t].loaded = Artifact(loads + 1)]
    /\ pc' = [pc EXCEPT ![t] = "store"]
    /\ UNCHANGED <<_MODEL, model_file, pipelineVars>>

\* _MODEL = <the object pickle.load returned>
StoreModel(t) ==
    /\ pc[t] = "store"
    /\ _MODEL' = frame[t].loaded
    /\ pc' = [pc EXCEPT ![t] = "return"]
    /\ UNCHANGED <<model_file, loads, frame, pipelineVars>>

\* return _MODEL
ReturnModel(t) ==
    /\ pc[t] = "return"
    /\ frame' = [frame EXCEPT ![t].result = _MODEL]
    /\ pc' = [pc EXCEPT ![t] = "returned"]
    /\ UNCHANGED <<_MODEL, model_file, loads, pipelineVars>>

get_model(t) ==
    \/ CheckCache(t)
    \/ FindModel(t)
    \/ LoadPickle(t)
    \/ StoreModel(t)
    \/ ReturnModel(t)

NextLoader == \E t \in Callers : get_model(t)

SpecLoader == InitLoader /\ [][NextLoader]_vars

\* C14: under any interleaving of the first-use callers of get_model the model
\* file is loaded at most once and all callers that were returned a model
\* were returned the same loaded artifact.
C14_LoadedOnceSameArtifact ==
    /\ loads <= 1
    /\ \A s, t \in DOMAIN pc :
          (pc[s] = "returned" /\ pc[t] = "returned") => frame[s].result = frame[t].result

\* ------------------------------------------------------------------ input records
\* Records as the submit endpoints accept them: validate_lab_data checks the nine
\* top-level lab numbers only, validate_lifestyle_data and
\* validate_mental_health_data leave the nested and the unlisted fields alone.
\* The date and created_at fields are carried by the order of the sequences.
LabNormal ==
    [glucose |-> Num(90), hba1c |-> Q(54, 10), cholesterol |-> Num(180), hdl |-> Num(55),
     blood_pressure_systolic |-> Num(118), blood_pressure_diastolic |-> Num(76),
     liver_enzymes |-> Mapping([alt |-> Num(25), ast |-> Num(30)]),
     kidney_function |-> Mapping([creatinine |-> Q(9, 10), bun |-> Num(15)])]

LabElevated ==
    [glucose |-> Num(130), hba1c |-> Q(68, 10), cholesterol |-> Num(250), hdl |-> Num(40),
     blood_pressure_systolic |-> Num(145), blood_pressure_diastolic |-> Num(92),
     liver_enzymes |-> Mapping([alt |-> Num(45), ast |-> Num(50)])]

\* liver_enzymes sent as text instead of a mapping
LabBadLiver == [glucose |-> Num(110), liver_enzymes |-> NotAMapping]

\* a liver panel whose alt entry is text
LabTextAlt == [glucose |-> Num(95), liver_enzymes |-> Mapping([alt |-> NotANumber])]

\* a reading whose diastolic pressure alone is raised
LabDiastolic ==
    [glucose |-> Num(90), blood_pressure_systolic |-> Num(125),
     blood_pressure_diastolic |-> Num(88)]

LabRecords == {LabNormal, LabElevated, LabBadLiver, LabTextAlt, LabDiastolic}

LifeActive ==
    [sleep_hours |-> Num(8), sleep_quality |-> "good", exercise_minutes |-> Num(45),
     steps |-> Num(9000), water_intake_ml |-> Num(2500), alcohol_units |-> Num(0),
     smoking |-> FALSE, diet_quality |-> "balanced",
     meals |-> Mapping([breakfast |-> TRUE, lunch |-> TRUE, dinner |-> TRUE])]

LifeSedentary ==
    [sleep_hours |-> Num(5), sleep_quality |-> "poor", exercise_minutes |-> Num(0),
     steps |-> Num(3000), water_intake_ml |-> Num(1200), alcohol_units |-> Num(3),
     smoking |-> TRUE, diet_quality |-> "poor",
     meals |-> Mapping([breakfast |-> FALSE, lunch |-> TRUE, dinner |-> TRUE])]

\* a record that carries the exercise minutes only
LifeSparse == [exercise_minutes |-> Num(30)]

\* meals sent as text instead of a mapping
LifeBadMeals == [sleep_hours |-> Num(7), meals |-> NotAMapping]

LifestyleRecords == {LifeActive, LifeSedentary, LifeSparse, LifeBadMeals}

MentalCalm ==
    [stress_level |-> Num(3), anxiety_level |-> Num(2), mood |-> "good",
     social_interaction |-> "high", work_life_balance |-> "good"]

MentalStressed ==
    [stress_level |-> Num(9), anxiety_level |-> Num(8), mood |-> "depressed",
     social_interaction |-> "low", work_life_balance |-> "poor"]

\* a record that carries the anxiety level only
MentalSparse == [anxiety_level |-> Num(4)]

MentalRecords == {MentalCalm, MentalStressed, MentalSparse}

NoFamilyHistory == [c \in {} |-> <<>>]
FamilyMetabolic == [diabetes |-> <<"father", "grandmother">>, hypertension |-> <<"mother">>]
FamilyCardiac == [heart_disease |-> <<"grandfather">>, liver_disease |-> <<>>]

FamilyHistories == {NoFamilyHistory, FamilyMetabolic, FamilyCardiac}

BoundedSeq(S, n) == UNION {[1..m -> S] : m \in 0..n}

\* ------------------------------------------------------------------ SpecFE
\* HealthFeatureEngineer().engineer_features(health_data) on every health_data
\* within the bounds.
InitFE ==
    /\ lab_data \in BoundedSeq(LabRecords, MaxRecords)
    /\ lifestyle_data \in BoundedSeq(LifestyleRecords, MaxRecords - Len(lab_data))
    /\ mental_health_data \in
           BoundedSeq(MentalRecords, MaxRecords - Len(lab_data) - Len(lifestyle_data))
    /\ family_history \in FamilyHistories
    /\ risk_reports = <<>>
    /\ clock = 0
    /\ call = "none"
    /\ args = NoArgs
    /\ features = EmptyFrame
    /\ risk_scores = NoScores
    /\ report = NoReport
    /\ ret = 0
    /\ response = NoResponse
    /\ LoaderIdle

CallEngineerFeatures ==
    /\ call = "none"
    /\ call' = "engineer_features"
    /\ features' = engineer_features(
           HealthData(lab_data, lifestyle_data, mental_health_data, family_history))
    /\ UNCHANGED <<lab_data, lifestyle_data, mental_health_data, family_history,
                   risk_reports, clock, args, risk_scores, report, ret, response,
                   loaderVars>>

NextFE == CallEngineerFeatures

SpecFE == InitFE /\ [][NextFE]_vars

\* ------------------------------------------------------------------ claims on SpecFE
SchemaKeys == LabKeys \cup LifestyleKeys \cup MentalKeys \cup FamilyKeys

AllDefaultVector ==
    _get_default_family_history_features @@ _get_default_mental_health_features
        @@ _get_default_lifestyle_features @@ _get_default_lab_features

\* C1: whatever categories are present or empty, the vector engineer_features
\* returns has exactly the key set of the all-default vector (23 lab, 13
\* lifestyle, 9 mental-health and 11 family-history keys): no key is omitted.
C1_SchemaComplete ==
    call = "engineer_features" =>
        /\ DOMAIN features = DOMAIN AllDefaultVector
        /\ Cardinality(LabKeys) = 23 /\ Cardinality(LifestyleKeys) = 13
        /\ Cardinality(MentalKeys) = 9 /\ Cardinality(FamilyKeys) = 11

\* C2: engineer_features never fails: a category whose records are malformed
\* holds its default sub-vector, the other categories are computed normally,
\* and the result is never empty.
C2_MalformedCategoryDefaults ==
    call = "engineer_features" =>
        LET lab == _extract_lab_features(lab_data)
            lifestyle == _extract_lifestyle_features(lifestyle_data)
            mental == _extract_mental_health_features(mental_health_data)
            family == _extract_family_history_features(family_history)
            want == family.value
                    @@ mental.value
                    @@ (IF lifestyle.raised THEN _get_default_lifestyle_features
                        ELSE lifestyle.value)
                    @@ (IF lab.raised THEN _get_default_lab_features ELSE lab.value)
        IN  /\ DOMAIN features # {}
            /\ \A k \in SchemaKeys : k \in DOMAIN features /\ features[k] = want[k]

Reverse(s) == [i \in 1..Len(s) |-> s[Len(s) + 1 - i]]

\* The least-squares slope of a metric against the chronological index, oldest
\* record first; 0 below two values.
ChronologicalSlope(data, column) ==
    IF Len(Column(data, column)) < 2 THEN Num(0)
    ELSE PolyfitSlope(Reverse(Column(data, column)))

StrictlyRising(data, column) ==
    /\ Len(Column(data, column)) = Len(data)
    /\ Len(data) >= 2
    /\ \A i \in 1..(Len(data) - 1) : Gt(data[i][column], data[i + 1][column])

StrictlyFalling(data, column) ==
    /\ Len(Column(data, column)) = Len(data)
    /\ Len(data) >= 2
    /\ \A i \in 1..(Len(data) - 1) : Lt(data[i][column], data[i + 1][column])

TrendMetrics ==
    [glucose_trend |-> "glucose", hba1c_trend |-> "hba1c",
     bp_systolic_trend |-> "blood_pressure_systolic", cholesterol_trend |-> "cholesterol"]

\* C10: each trend feature of a newest-first lab sequence is the least-squares
\* slope against the chronological index (oldest first): positive for a metric
\* that strictly rises over time, negative for one that strictly falls, and 0
\* with fewer than 2 records.
C10_TrendIsChronologicalSlope ==
    (call = "engineer_features" /\ DOMAIN features # {}) =>
        \A t \in DOMAIN TrendMetrics :
            /\ features[t] = ChronologicalSlope(lab_data, TrendMetrics[t])
            /\ StrictlyRising(lab_data, TrendMetrics[t]) => Gt(features[t], Num(0))
            /\ StrictlyFalling(lab_data, TrendMetrics[t]) => Lt(features[t], Num(0))
            /\ Len(lab_data) < 2 => features[t] = Num(0)

\* The features each sub-field of a lifestyle or mental-health record is
\* aggregated into.
LifestyleAggregates ==
    [sleep_hours |-> {"avg_sleep_hours", "sleep_consistency"},
     sleep_quality |-> {"poor_sleep_days"},
     exercise_minutes |-> {"avg_exercise_minutes", "exercise_frequency"},
     steps |-> {"avg_steps"},
     water_intake_ml |-> {"avg_water_intake", "dehydration_risk"},
     alcohol_units |-> {"avg_alcohol_units"},
     smoking |-> {"smoking"},
     diet_quality |-> {"diet_quality_score"},
     meals |-> {"meal_regularity"}]

MentalAggregates ==
    [stress_level |-> {"avg_stress_level", "high_stress_frequency", "chronic_stress_flag"},
     anxiety_level |-> {"avg_anxiety_level"},
     mood |-> {"avg_mood_score", "low_mood_frequency", "depression_risk_flag"},
     social_interaction |-> {"social_interaction_score"},
     work_life_balance |-> {"work_life_balance_score"}]

\* Every value of the health data has the type the store documents: the
\* sub-panels are mappings and their entries numbers.
WellTyped ==
    /\ \A i \in DOMAIN lab_data :
          \A panel \in {"liver_enzymes", "kidney_function"} \cap DOMAIN lab_data[i] :
              /\ lab_data[i][panel].is_mapping
              /\ \A k \in DOMAIN lab_data[i][panel].items : IsNum(lab_data[i][panel].items[k])
    /\ \A i \in DOMAIN lifestyle_data :
          "meals" \in DOMAIN lifestyle_data[i] => lifestyle_data[i]["meals"].is_mapping

\* C11: on well-typed health data, when a category has records but a sub-field
\* is carried by none of them, engineer_features does not fail and every
\* feature aggregated from that sub-field has the value it has in the
\* category's default sub-vector.
C11_MissingSubFieldIsDefault ==
    (call = "engineer_features" /\ WellTyped) =>
        /\ \A s \in DOMAIN LifestyleAggregates :
              (lifestyle_data # <<>> /\ ~HasColumn(lifestyle_data, s)) =>
                  /\ DOMAIN features # {}
                  /\ \A k \in LifestyleAggregates[s] :
                         features[k] = _get_default_lifestyle_features[k]
        /\ \A s \in DOMAIN MentalAggregates :
              (mental_health_data # <<>> /\ ~HasColumn(mental_health_data, s)) =>
                  /\ DOMAIN features # {}
                  /\ \A k \in MentalAggregates[s] :
                         features[k] = _get_default_mental_health_features[k]

\* C12: each category with zero records (an empty lab, lifestyle or
\* mental-health sequence, an empty or absent family history) has exactly its
\* default sub-vector in what engineer_features returns, whatever the other
\* categories contain.
C12_EmptyCategoryDefaults ==
    call = "engineer_features" =>
        /\ lab_data = <<>> =>
               \A k \in LabKeys :
                   k \in DOMAIN features /\ features[k] = _get_default_lab_features[k]
        /\ lifestyle_data = <<>> =>
               \A k \in LifestyleKeys :
                   k \in DOMAIN features /\ features[k] = _get_default_lifestyle_features[k]
        /\ mental_health_data = <<>> =>
               \A k \in MentalKeys :
                   k \in DOMAIN features
                   /\ features[k] = _get_default_mental_health_features[k]
        /\ DOMAIN family_history = {} =>
               \A k \in FamilyKeys :
                   k \in DOMAIN features
                   /\ features[k] = _get_default_family_history_features[k]

\* C13: in every feature vector engineer_features returns, sedentary_lifestyle
\* is 1 exactly when avg_steps is below 5000 and avg_exercise_minutes is below
\* 20 in that vector, and 0 otherwise.
C13_SedentaryIsJointFlag ==
    (call = "engineer_features" /\ DOMAIN features # {}) =>
        features["sedentary_lifestyle"] =
            Flag(Lt(features["avg_steps"], Num(5000))
                 /\ Lt(features["avg_exercise_minutes"], Num(20)))

\* ------------------------------------------------------------------ SpecPipeline
\* engineer_features, then predict_risk_scores on the row it returned, then
\* generate_risk_report, each called as generate_risk_assessment calls it, on
\* every health_data within the bounds.
AllUnfitted == [d \in Diseases |-> Unfitted]

AllFitted ==
    [diabetes |-> ModelState(TRUE, FALSE, 0),
     hypertension |-> ModelState(TRUE, FALSE, PUnit),
     liver_disease |-> ModelState(TRUE, FALSE, Pct(46)),
     cardiac_risk |-> ModelState(TRUE, FALSE, 12340),
     mental_health |-> ModelState(TRUE, FALSE, Pct(49))]

Failing(models, D) == [d \in Diseases |-> IF d \in D THEN ModelState(TRUE, TRUE, 0) ELSE models[d]]

\* The model files MODEL_PATH may hold when MultiDiseaseRiskModel is constructed.
ModelCases ==
    {AllUnfitted,
     [AllUnfitted EXCEPT !["diabetes"] = ModelState(TRUE, FALSE, Pct(62))],
     Failing(AllUnfitted, {"diabetes"}),
     AllFitted,
     Failing(AllFitted, {"liver_disease"}),
     Failing(AllFitted, {"diabetes", "mental_health"}),
     Failing(AllFitted, Diseases)}

InitPipeline == InitFE

CallPredictRiskScores ==
    /\ call = "engineer_features"
    /\ DOMAIN features # {}
    /\ \E models \in ModelCases :
        /\ args' = [models |-> models]
        /\ risk_scores' = predict_risk_scores(features, models)
    /\ call' = "predict_risk_scores"
    /\ UNCHANGED <<lab_data, lifestyle_data, mental_health_data, family_history,
                   risk_reports, clock, features, report, ret, response,
                   loaderVars>>

\* current_user as require_auth hands it to the endpoint
CurrentUser == [uid |-> "u1", name |-> "Asha", email |-> "asha@example.org"]

\* a thresholds table whose liver_disease entry lacks the 'high' cut point
ThresholdsLackingCut ==
    [RISK_THRESHOLDS EXCEPT !["liver_disease"] = [low |-> Pct(25), medium |-> Pct(45)]]

\* {'diabetes': 0.8, 'hypertension': 0.2}
ScoresTwo == <<Entry("diabetes", Pct(80)), Entry("hypertension", Pct(20))>>

ReportCall(scores, risk_thresholds, user_profile) ==
    [risk_scores |-> scores, thresholds |-> risk_thresholds, user_profile |-> user_profile]

\* The calls of generate_risk_report on the engineered row: the endpoint's own
\* (the predicted scores, the configured thresholds, the current user) and
\* calls with other scores, thresholds and profiles.
ReportCalls(predicted) ==
    {ReportCall(predicted, RISK_THRESHOLDS, CurrentUser),
     ReportCall(predicted, ThresholdsLackingCut, CurrentUser),
     ReportCall(NoScores, RISK_THRESHOLDS, CurrentUser),
     ReportCall(ScoresTwo, EmptyDict, EmptyDict)}

CallGenerateRiskReport ==
    /\ call = "predict_risk_scores"
    /\ \E c \in ReportCalls(risk_scores) :
        /\ args' = c
        /\ report' = generate_risk_report(
               c.risk_scores, features, c.user_profile, c.thresholds, clock)
    /\ call' = "generate_risk_report"
    /\ UNCHANGED <<lab_data, lifestyle_data, mental_health_data, family_history,
                   risk_reports, clock, features, risk_scores, ret, response,
                   loaderVars>>

NextPipeline ==
    \/ CallEngineerFeatures
    \/ CallPredictRiskScores
    \/ CallGenerateRiskReport

SpecPipeline == InitPipeline /\ [][NextPipeline]_vars

\* C5: when the trained-classifier path raises for a disease D,
\* predict_risk_scores still returns an entry for every configured disease; D
\* gets its rule-based value and every other disease gets exactly the value it
\* would have got had D not failed.
C5_TrainedFailureIsolated ==
    call = "predict_risk_scores" =>
        \A D \in Diseases :
            (args.models[D].fitted /\ args.models[D].raises) =>
                /\ Keys(risk_scores) = Diseases
                /\ Len(risk_scores) = Cardinality(Diseases)
                /\ ScoreOf(risk_scores, D) = _rule_based_prediction(features, D)
                /\ \A d \in Diseases \ {D} :
                       ScoreOf(risk_scores, d) =
                           ScoreOf(predict_risk_scores(
                                       features, [args.models EXCEPT ![D].raises = FALSE]), d)

\* A trained path failed for one disease while another disease was scored by
\* its classifier.
C5_Witness ==
    /\ call = "predict_risk_scores"
    /\ \E D, d \in Diseases :
        /\ args.models[D].fitted /\ args.models[D].raises
        /\ args.models[d].fitted /\ ~args.models[d].raises
        /\ ScoreOf(risk_scores, d) = args.models[d].proba
        /\ ScoreOf(risk_scores, D) # Pct(50)

\* C6: for every valid feature vector predict_risk_scores returns a
\* probability in [0,1] for each of the five configured diseases, and every
\* value the rule-based strategy produces lies in [0,1].
C6_ProbabilitiesInUnitInterval ==
    call = "predict_risk_scores" =>
        /\ Keys(risk_scores) =
               {"diabetes", "hypertension", "liver_disease", "cardiac_risk", "mental_health"}
        /\ Len(risk_scores) = 5
        /\ \A i \in DOMAIN risk_scores :
               0 <= risk_scores[i].score /\ risk_scores[i].score <= PUnit
        /\ \A d \in Diseases :
               0 <= _rule_based_prediction(features, d)
               /\ _rule_based_prediction(features, d) <= PUnit

\* The rule-based diabetes score ran into its cap of 1.0.
C6_Witness ==
    /\ call = "predict_risk_scores"
    /\ ~args.models["diabetes"].fitted
    /\ Ge(features["glucose_latest"], Num(126))
    /\ FlagSet(features, "has_family_diabetes")
    /\ FlagSet(features, "sedentary_lifestyle")
    /\ ScoreOf(risk_scores, "diabetes") = PUnit

\* The fields of a complete report.
ReportFields ==
    {"risk_assessments", "overall_risk_score", "priority_actions", "detailed_recommendations",
     "key_risk_factors", "data_completeness", "next_assessment_date"}

AssessmentFields ==
    {"disease", "risk_score", "risk_level", "confidence", "contributing_factors",
     "recommendations"}

\* C9: generate_risk_report returns either a complete report (all seven
\* fields present, one full assessment per entry of risk_scores) or the empty
\* result; an empty risk-score mapping, a thresholds entry lacking a cut point
\* that is read, or a feature that cannot be compared yields the empty result,
\* never a partially filled report.
C9_CompleteReportOrEmpty ==
    call = "generate_risk_report" =>
        /\ \/ report = NoReport
           \/ /\ ReportFields \subseteq DOMAIN report
              /\ Len(report.risk_assessments) = Len(args.risk_scores)
              /\ Len(args.risk_scores) > 0
              /\ \A i \in DOMAIN report.risk_assessments :
                     /\ DOMAIN report.risk_assessments[i] = AssessmentFields
                     /\ report.risk_assessments[i].disease = args.risk_scores[i].disease
              /\ DOMAIN report.detailed_recommendations =
                     {"lifestyle", "medical", "monitoring", "prevention"}
              /\ DOMAIN report.data_completeness =
                     {"lab_data", "lifestyle_data", "mental_health", "family_history"}
        /\ Len(args.risk_scores) = 0 => report = NoReport
        /\ (\E i \in DOMAIN args.risk_scores :
               LET d == args.risk_scores[i].disease
               IN  /\ d \in DOMAIN args.thresholds
                   /\ "high" \notin DOMAIN args.thresholds[d]
                   /\ args.risk_scores[i].score >= args.thresholds[d]["medium"])
               => report = NoReport
        /\ (\E k \in DOMAIN features : IsStr(features[k]) /\ k \in {"alt_latest"}
                /\ Len(args.risk_scores) = 5)
               => report = NoReport

\* A thresholds entry lacking its 'high' cut point was read for a liver score
\* at or above 'medium', on features that are all numbers, and the result is empty.
C9_Witness ==
    /\ call = "generate_risk_report"
    /\ report = NoReport
    /\ \A k \in DOMAIN features : ~IsStr(features[k])
    /\ "high" \notin DOMAIN args.thresholds["liver_disease"]
    /\ ScoreOf(args.risk_scores, "liver_disease") >= Pct(45)

\* ------------------------------------------------------------------ SpecLevel
\* _get_risk_level and get_risk_level on two scores of one disease, under the
\* configured thresholds and under a table that configures no disease.
CutPoints == {Pct(25), Pct(30), Pct(35), Pct(45), Pct(50), Pct(55), Pct(65), Pct(70), Pct(75)}

ScoreGrid == {0, PUnit} \cup {c + e : c \in CutPoints, e \in {-1, 0, 1}}

InitLevel ==
    /\ lab_data = <<>>
    /\ lifestyle_data = <<>>
    /\ mental_health_data = <<>>
    /\ family_history = NoFamilyHistory
    /\ risk_reports = <<>>
    /\ clock = 0
    /\ call = "none"
    /\ args \in [score : ScoreGrid, other : ScoreGrid, disease : Diseases \cup {"A"},
                thresholds : {RISK_THRESHOLDS, EmptyDict}]
    /\ features = EmptyFrame
    /\ risk_scores = NoScores
    /\ report = NoReport
    /\ ret = 0
    /\ response = NoResponse
    /\ LoaderIdle

CallGetRiskLevel ==
    /\ call = "none"
    /\ call' = "_get_risk_level"
    /\ ret' = [level |-> _get_risk_level(args.score, args.disease, args.thresholds),
               other_level |-> _get_risk_level(args.other, args.disease, args.thresholds),
               model_level |-> get_risk_level(args.score, args.disease, args.thresholds)]
    /\ UNCHANGED <<lab_data, lifestyle_data, mental_health_data, family_history,
                   risk_reports, clock, args, features, risk_scores, report, response,
                   loaderVars>>

NextLevel == CallGetRiskLevel

SpecLevel == InitLevel /\ [][NextLevel]_vars

LevelRank == [low |-> 0, medium |-> 1, high |-> 2, very_high |-> 3]

\* C7: the level is monotonic non-decreasing in the score; a score below the
\* 'low' cut point is low, from 'low' up to below 'medium' it is medium, from
\* 'medium' up to below 'high' it is high, from 'high' on it is very_high, so a
\* score equal to a cut point takes the tier above it; a disease without
\* configured thresholds uses the cut points 0.3, 0.5 and 0.7; get_risk_level
\* of the risk model gives the same level.
C7_LevelMonotonicStrict ==
    call = "_get_risk_level" =>
        LET configured == args.disease \in DOMAIN args.thresholds
            low == IF configured THEN args.thresholds[args.disease]["low"]
                   ELSE (3 * PUnit) \div 10
            medium == IF configured THEN args.thresholds[args.disease]["medium"]
                      ELSE (5 * PUnit) \div 10
            high == IF configured THEN args.thresholds[args.disease]["high"]
                    ELSE (7 * PUnit) \div 10
        IN  /\ args.score <= args.other => LevelRank[ret.level] <= LevelRank[ret.other_level]
            /\ args.score < low <=> ret.level = "low"
            /\ (low <= args.score /\ args.score < medium) <=> ret.level = "medium"
            /\ (medium <= args.score /\ args.score < high) <=> ret.level = "high"
            /\ high <= args.score <=> ret.level = "very_high"
            /\ args.score = low => ret.level = "medium"
            /\ args.score = medium => ret.level = "high"
            /\ args.score = high => ret.level = "very_high"
            /\ ret.model_level = ret.level

\* A score equal to the default 'low' cut point 0.3, for a disease without
\* configured thresholds, was mapped to medium.
C7_Witness ==
    /\ call = "_get_risk_level"
    /\ args.disease \notin DOMAIN args.thresholds
    /\ args.score = Pct(30)
    /\ ret.level = "medium"
    /\ args.other = Pct(70) /\ ret.other_level = "very_high"

\* ------------------------------------------------------------------ SpecPriority
\* _prioritize_actions on every risk_assessments mapping of at most
\* MaxAssessments diseases, each with one of the (risk_score, risk_level) pairs.
MaxAssessments == 6

PriorityNames ==
    <<"A", "B", "C", "diabetes", "liver_disease", "hypertension", "mental_health",
      "cardiac_risk">>

ScoreLevels ==
    {<<Percent(80), "high">>, <<Percent(60), "medium">>, <<Percent(90), "very_high">>,
     <<Percent(85), "medium">>, <<Percent(20), "low">>}

\* risk_assessments with the entry of PriorityNames[i] holding the pair sl[i].
AssessmentInputs(sl) ==
    [i \in DOMAIN sl |->
        [disease |-> PriorityNames[i], risk_score |-> sl[i][1], risk_level |-> sl[i][2]]]

InitPriority ==
    /\ lab_data = <<>>
    /\ lifestyle_data = <<>>
    /\ mental_health_data = <<>>
    /\ family_history = NoFamilyHistory
    /\ risk_reports = <<>>
    /\ clock = 0
    /\ call = "none"
    /\ \E n \in 0..Min(MaxAssessments, Len(PriorityNames)) :
           \E sl \in [1..n -> ScoreLevels] :
               args = [risk_assessments |-> AssessmentInputs(sl)]
    /\ features = EmptyFrame
    /\ risk_scores = NoScores
    /\ report = NoReport
    /\ ret = <<>>
    /\ response = NoResponse
    /\ LoaderIdle

CallPrioritizeActions ==
    /\ call = "none"
    /\ call' = "_prioritize_actions"
    /\ ret' = _prioritize_actions(args.risk_assessments)
    /\ UNCHANGED <<lab_data, lifestyle_data, mental_health_data, family_history,
                   risk_reports, clock, args, features, risk_scores, report, response,
                   loaderVars>>

NextPriority == CallPrioritizeActions

SpecPriority == InitPriority /\ [][NextPriority]_vars

Max(a, b) == IF a >= b THEN a ELSE b

\* The input assessment of the disease an action names.
AssessmentOf(entries, disease) ==
    entries[CHOOSE i \in DOMAIN entries : entries[i].disease = disease]

\* C8: priority_actions is a block of urgency=high 'consult' actions, exactly
\* one per disease at level high or very_high, in descending risk_score,
\* followed by a block of urgency=medium 'monitor' actions for medium-level
\* diseases in descending risk_score, a medium action being added only while
\* the list holds fewer than 5 actions; low-level diseases get no action; the
\* diseases A(80, high), B(60, medium), C(90, very_high) give exactly [C, A, B].
C8_PriorityOrderAndCap ==
    call = "_prioritize_actions" =>
        LET entries == args.risk_assessments
            HighIn == {i \in DOMAIN entries : entries[i].risk_level \in {"high", "very_high"}}
            MediumIn == {i \in DOMAIN entries : entries[i].risk_level = "medium"}
            h == Cardinality(HighIn)
            m == Len(ret) - h
        IN  /\ Len(ret) >= h
            /\ \A i \in 1..h :
                  /\ ret[i].urgency = "high"
                  /\ ret[i].action[1] = "Consult a healthcare provider for "
                  /\ AssessmentOf(entries, ret[i].disease).risk_level \in {"high", "very_high"}
            /\ {ret[i].disease : i \in 1..h} = {entries[i].disease : i \in HighIn}
            /\ \A i \in (h + 1)..Len(ret) :
                  /\ ret[i].urgency = "medium"
                  /\ ret[i].action[1] = "Monitor "
                  /\ AssessmentOf(entries, ret[i].disease).risk_level = "medium"
                  /\ i <= 5
            /\ m = Min(Cardinality(MediumIn), Max(0, 5 - h))
            /\ \A i, j \in DOMAIN ret : i # j => ret[i].disease # ret[j].disease
            /\ \A i \in DOMAIN ret :
                  ret[i].risk_score = AssessmentOf(entries, ret[i].disease).risk_score
            /\ \A i \in 1..(Len(ret) - 1) :
                  ret[i].urgency = ret[i + 1].urgency =>
                      ret[i].risk_score >= ret[i + 1].risk_score
            /\ \A i \in MediumIn :
                  entries[i].disease \notin {ret[j].disease : j \in DOMAIN ret} =>
                      \A j \in (h + 1)..Len(ret) : ret[j].risk_score >= entries[i].risk_score
            /\ entries = <<[disease |-> "A", risk_score |-> Percent(80), risk_level |-> "high"],
                           [disease |-> "B", risk_score |-> Percent(60), risk_level |-> "medium"],
                           [disease |-> "C", risk_score |-> Percent(90),
                            risk_level |-> "very_high"]>>
                   => [i \in DOMAIN ret |-> ret[i].disease] = <<"C", "A", "B">>

\* A(80, high), B(60, medium), C(90, very_high) were prioritised as [C, A, B].
C8_Witness ==
    /\ call = "_prioritize_actions"
    /\ [i \in DOMAIN args.risk_assessments |->
           <<args.risk_assessments[i].disease, args.risk_assessments[i].risk_score,
             args.risk_assessments[i].risk_level>>]
           = <<<<"A", Percent(80), "high">>, <<"B", Percent(60), "medium">>,
               <<"C", Percent(90), "very_high">>>>
    /\ [i \in DOMAIN ret |-> ret[i].disease] = <<"C", "A", "B">>
    /\ [i \in DOMAIN ret |-> ret[i].urgency] = <<"high", "high", "medium">>

\* ------------------------------------------------------------------ SpecRules
\* _rule_based_prediction, predict_risk_scores, _identify_risk_factors,
\* _get_recommendations and generate_risk_report called directly on feature
\* vectors around every threshold the rules read; a vector may lack a column
\* and may hold text where a number is expected.
Absent == <<0, 0, "absent">>
Text == NotANumber

\* The vector of the columns an assignment gives a value.
Vector(a) == [k \in {c \in DOMAIN a : a[c] # Absent} |-> a[k]]

DiabetesCases ==
    {Vector(a) : a \in
        [glucose_latest : {Absent, Num(99), Num(100), Num(126), Num(150), Text},
         hba1c_latest : {Absent, Q(57, 10), Q(65, 10), Num(7)},
         has_family_diabetes : {Absent, Num(1)},
         sedentary_lifestyle : {Num(0), Num(1)},
         diet_quality_score : {Num(2), Q(5, 2)}]}

HypertensionCases ==
    {Vector(a) : a \in
        [bp_systolic_latest : {Absent, Num(129), Num(130), Num(140), Text},
         bp_diastolic_latest : {Num(80), Num(85), Num(90)},
         has_family_hypertension : {Num(0), Num(1)},
         avg_stress_level : {Num(5), Num(7)},
         avg_alcohol_units : {Num(0), Num(3)},
         smoking : {Num(0), Num(1)}]}

LiverCases ==
    {Vector(a) : a \in
        [alt_latest : {Absent, Num(30), Num(31), Num(41), Text},
         ast_latest : {Num(0), Num(31), Num(41)},
         avg_alcohol_units : {Num(2), Num(3)},
         diet_quality_score : {Num(1), Q(5, 2)}]}

CardiacCases ==
    {Vector(a) : a \in
        [cholesterol_latest : {Num(200), Num(201), Num(241)},
         bp_systolic_latest : {Num(130), Num(141)},
         smoking : {Num(0), Num(1)},
         has_family_heart_disease : {Num(0), Num(1)},
         exercise_frequency : {Absent, Q(3, 10), Num(1)}]}

MentalCases ==
    {Vector(a) : a \in
        [avg_stress_level : {Absent, Num(5), Num(6), Num(7), Num(8), Text},
         avg_mood_score : {Num(2), Q(5, 2), Num(3)},
         avg_sleep_hours : {Num(5), Num(6), Num(7)},
         social_interaction_score : {Num(1), Num(2)},
         work_life_balance_score : {Num(2), Num(3)}]}

FeatureCases == DiabetesCases \cup HypertensionCases \cup LiverCases \cup CardiacCases
                    \cup MentalCases

\* The diseases a helper is called for: the configured ones and an unknown one.
DiseaseCases == Diseases \cup {"A"}

InitRules ==
    /\ lab_data = <<>>
    /\ lifestyle_data = <<>>
    /\ mental_health_data = <<>>
    /\ family_history = NoFamilyHistory
    /\ risk_reports = <<>>
    /\ clock = 0
    /\ call = "none"
    /\ args = NoArgs
    /\ features \in FeatureCases
    /\ risk_scores = NoScores
    /\ report = NoReport
    /\ ret = 0
    /\ response = NoResponse
    /\ LoaderIdle

CallRuleBasedPrediction ==
    /\ call = "none"
    /\ \E disease \in DiseaseCases :
        /\ args' = [disease |-> disease]
        /\ ret' = _rule_based_prediction(features, disease)
    /\ call' = "_rule_based_prediction"
    /\ UNCHANGED <<lab_data, lifestyle_data, mental_health_data, family_history,
                   risk_reports, clock, features, risk_scores, report, response,
                   loaderVars>>

\* predict_risk_scores on the vector, with no trained model or with trained
\* models whose prediction raises.
CallPredictOnVector ==
    /\ call = "none"
    /\ \E models \in {AllUnfitted, Failing(AllFitted, Diseases)} :
        /\ args' = [models |-> models]
        /\ risk_scores' = predict_risk_scores(features, models)
    /\ call' = "predict_risk_scores"
    /\ UNCHANGED <<lab_data, lifestyle_data, mental_health_data, family_history,
                   risk_reports, clock, features, report, ret, response, loaderVars>>

CallIdentifyRiskFactors ==
    /\ call = "none"
    /\ \E disease \in DiseaseCases :
        /\ args' = [disease |-> disease]
        /\ ret' = IF FactorsRaise(disease, features) THEN Raised
                  ELSE Returned(_identify_risk_factors(disease, features))
    /\ call' = "_identify_risk_factors"
    /\ UNCHANGED <<lab_data, lifestyle_data, mental_health_data, family_history,
                   risk_reports, clock, features, risk_scores, report, response,
                   loaderVars>>

RiskLevels == {"low", "medium", "high", "very_high"}

CallGetRecommendations ==
    /\ call = "none"
    /\ \E disease \in DiseaseCases, risk_level \in RiskLevels :
        /\ args' = [disease |-> disease, risk_level |-> risk_level]
        /\ ret' = IF PersonalizedRaise(disease, features) THEN Raised
                  ELSE Returned(_get_recommendations(disease, risk_level, features))
    /\ call' = "_get_recommendations"
    /\ UNCHANGED <<lab_data, lifestyle_data, mental_health_data, family_history,
                   risk_reports, clock, features, risk_scores, report, response,
                   loaderVars>>

\* Other values of current_user: another user, a profile without a name, an
\* empty profile.
OtherUsers ==
    {[uid |-> "u2", name |-> "Bo", email |-> "bo@example.org"],
     [uid |-> "u3", email |-> "cy@example.org"],
     EmptyDict}

\* Two calls of generate_risk_report with the same risk_scores and features:
\* one for CurrentUser at time 0, one for another user at a later time.
CallGenerateRiskReportTwice ==
    /\ call = "none"
    /\ \E scores \in {predict_risk_scores(features, AllUnfitted), ScoresTwo},
          user_profile \in OtherUsers :
        /\ args' = [risk_scores |-> scores, user_profile |-> user_profile]
        /\ ret' = [first |-> generate_risk_report(
                                 scores, features, CurrentUser, RISK_THRESHOLDS, 0),
                   second |-> generate_risk_report(
                                  scores, features, user_profile, RISK_THRESHOLDS, 1)]
    /\ call' = "generate_risk_report"
    /\ UNCHANGED <<lab_data, lifestyle_data, mental_health_data, family_history,
                   risk_reports, clock, features, risk_scores, report, response,
                   loaderVars>>

NextRules ==
    \/ CallRuleBasedPrediction
    \/ CallPredictOnVector
    \/ CallIdentifyRiskFactors
    \/ CallGetRecommendations
    \/ CallGenerateRiskReportTwice

SpecRules == InitRules /\ [][NextRules]_vars

\* Add an increment to a probability, capped at 1.0.
CappedAdd(p, increment) == IF p + increment > PUnit THEN PUnit ELSE p + increment

\* C16: the rule-based diabetes probability is base 0.8 if glucose_latest >=
\* 126 or hba1c_latest >= 6.5, else 0.5 if glucose_latest >= 100 or
\* hba1c_latest >= 5.7, else 0.2; plus 0.15 if has_family_diabetes is 1; plus
\* 0.1 if sedentary_lifestyle is 1; each addition capped at 1.0; glucose 150
\* and hba1c 7.0 without family history and sedentary flag give exactly 0.8.
C16_DiabetesRuleTable ==
    (/\ call = "_rule_based_prediction"
     /\ args.disease = "diabetes"
     /\ \A k \in {"glucose_latest", "hba1c_latest"} \cap DOMAIN features :
            IsNum(features[k])) =>
        LET value(k) == IF k \in DOMAIN features THEN features[k] ELSE Num(0)
            glucose == value("glucose_latest")
            hba1c == value("hba1c_latest")
            base == IF Le(Num(126), glucose) \/ Le(Q(13, 2), hba1c) THEN (8 * PUnit) \div 10
                    ELSE IF Le(Num(100), glucose) \/ Le(Q(57, 10), hba1c)
                         THEN (5 * PUnit) \div 10
                         ELSE (2 * PUnit) \div 10
            family == IF value("has_family_diabetes") = Num(1)
                      THEN CappedAdd(base, (15 * PUnit) \div 100) ELSE base
            lifestyle == IF value("sedentary_lifestyle") = Num(1)
                         THEN CappedAdd(family, PUnit \div 10) ELSE family
        IN  /\ ret = lifestyle
            /\ (/\ glucose = Num(150) /\ hba1c = Num(7)
                /\ value("has_family_diabetes") = Num(0)
                /\ value("sedentary_lifestyle") = Num(0)) => 10 * ret = 8 * PUnit

\* glucose 150 and hba1c 7.0 with neither flag gave 0.8.
C16_Witness ==
    /\ call = "_rule_based_prediction"
    /\ args.disease = "diabetes"
    /\ "glucose_latest" \in DOMAIN features /\ features["glucose_latest"] = Num(150)
    /\ "hba1c_latest" \in DOMAIN features /\ features["hba1c_latest"] = Num(7)
    /\ "has_family_diabetes" \notin DOMAIN features
    /\ features["sedentary_lifestyle"] = Num(0)
    /\ ret = Pct(80)

\* The first column the rules of a disease compare against a number holds text.
TextRead(f, disease) ==
    LET text(k) == k \in DOMAIN f /\ f[k] = Text
    IN  \/ disease = "diabetes" /\ text("glucose_latest")
        \/ disease = "hypertension" /\ text("bp_systolic_latest")
        \/ disease = "liver_disease" /\ text("alt_latest")
        \/ disease = "cardiac_risk" /\ text("bp_systolic_latest")
        \/ disease = "mental_health" /\ text("avg_stress_level")

\* C17: when rule-based evaluation fails for a disease (a column the rules
\* compare holds text), _rule_based_prediction returns the neutral 0.5, and
\* predict_risk_scores, on the rule-based path for that disease, returns its
\* full mapping with 0.5 for it: no exception reaches its caller.
C17_RuleFailureIsNeutral ==
    /\ (call = "_rule_based_prediction" /\ TextRead(features, args.disease)) =>
           2 * ret = PUnit
    /\ call = "predict_risk_scores" =>
           /\ Keys(risk_scores) = Diseases
           /\ Len(risk_scores) = Cardinality(Diseases)
           /\ \A d \in Diseases :
                  TextRead(features, d) => 2 * ScoreOf(risk_scores, d) = PUnit

\* The rules of a disease raised on a text value, inside the fallback of a
\* trained model that had raised itself, and the mapping came back with 0.5.
C17_Witness ==
    /\ call = "predict_risk_scores"
    /\ args.models["liver_disease"].fitted /\ args.models["liver_disease"].raises
    /\ TextRead(features, "liver_disease")
    /\ ScoreOf(risk_scores, "liver_disease") = Pct(50)
    /\ ScoreOf(risk_scores, "diabetes") = Pct(20)

\* The value the scoring engine reads for a column: features.get(column, 0).
Read(f, column) == IF column \in DOMAIN f THEN f[column] ELSE Num(0)

\* The fixed order of the contributing-factor phrases of each disease.
FactorOrder ==
    [diabetes |->
        <<"Elevated glucose levels", "Elevated HbA1c", "Family history of diabetes",
          "Sedentary lifestyle", "Poor diet quality">>,
     hypertension |->
        <<"Elevated blood pressure", "Family history of hypertension", "High stress levels",
          "Excessive alcohol consumption", "Smoking">>,
     liver_disease |->
        <<"Elevated liver enzymes", "Excessive alcohol consumption", "Poor diet">>,
     cardiac_risk |->
        <<"Elevated cholesterol", "High blood pressure", "Smoking",
          "Family history of heart disease", "Insufficient exercise">>,
     mental_health |->
        <<"Chronic high stress", "Low mood", "Sleep deprivation", "Social isolation",
          "Poor work-life balance">>]

\* The predicate each phrase stands for.
FactorHolds(phrase, f) ==
    CASE phrase = "Elevated glucose levels" -> Le(Num(100), Read(f, "glucose_latest"))
      [] phrase = "Elevated HbA1c" -> Le(Q(57, 10), Read(f, "hba1c_latest"))
      [] phrase = "Family history of diabetes" -> Read(f, "has_family_diabetes") = Num(1)
      [] phrase = "Sedentary lifestyle" -> Read(f, "sedentary_lifestyle") = Num(1)
      [] phrase = "Poor diet quality" -> Lt(Read(f, "diet_quality_score"), Q(5, 2))
      [] phrase = "Elevated blood pressure" -> Le(Num(130), Read(f, "bp_systolic_latest"))
      [] phrase = "Family history of hypertension" ->
            Read(f, "has_family_hypertension") = Num(1)
      [] phrase = "High stress levels" -> Le(Num(7), Read(f, "avg_stress_level"))
      [] phrase = "Excessive alcohol consumption" -> Lt(Num(2), Read(f, "avg_alcohol_units"))
      [] phrase = "Smoking" -> Read(f, "smoking") = Num(1)
      [] phrase = "Elevated liver enzymes" ->
            Lt(Num(30), Read(f, "alt_latest")) \/ Lt(Num(30), Read(f, "ast_latest"))
      [] phrase = "Poor diet" -> Lt(Read(f, "diet_quality_score"), Q(5, 2))
      [] phrase = "Elevated cholesterol" -> Lt(Num(200), Read(f, "cholesterol_latest"))
      [] phrase = "High blood pressure" -> Le(Num(130), Read(f, "bp_systolic_latest"))
      [] phrase = "Family history of heart disease" ->
            Read(f, "has_family_heart_disease") = Num(1)
      [] phrase = "Insufficient exercise" -> Lt(Read(f, "exercise_frequency"), Q(3, 10))
      [] phrase = "Chronic high stress" -> Le(Num(7), Read(f, "avg_stress_level"))
      [] phrase = "Low mood" -> Le(Read(f, "avg_mood_score"), Q(5, 2))
      [] phrase = "Sleep deprivation" -> Lt(Read(f, "avg_sleep_hours"), Num(6))
      [] phrase = "Social isolation" -> Le(Read(f, "social_interaction_score"), Num(1))
      [] phrase = "Poor work-life balance" -> Le(Read(f, "work_life_balance_score"), Num(2))

\* C18: for every disease, configured or unknown, and every feature vector
\* _identify_risk_factors returns a list for, contributing_factors is
\* non-empty: it lists the phrase of each true predicate in the fixed order
\* of the disease's predicates, and when none is true it is exactly
\* ['No significant risk factors identified'].
C18_FactorsNeverEmpty ==
    (call = "_identify_risk_factors" /\ ~ret.raised) =>
        LET order == IF args.disease \in DOMAIN FactorOrder
                     THEN FactorOrder[args.disease] ELSE <<>>
            true == SelectSeq(order, LAMBDA phrase : FactorHolds(phrase, features))
        IN  /\ ret.value # <<>>
            /\ true # <<>> => ret.value = true
            /\ true = <<>> => ret.value = <<"No significant risk factors identified">>

\* No predicate of a configured disease held on a vector with columns, and
\* the one sentence came back.
C18_Witness ==
    /\ call = "_identify_risk_factors"
    /\ args.disease = "diabetes"
    /\ "glucose_latest" \in DOMAIN features /\ features["glucose_latest"] = Num(99)
    /\ ~ret.raised
    /\ ret.value = <<"No significant risk factors identified">>

\* The feature-triggered recommendations of each disease, in order.
PersonalOrder ==
    [diabetes |->
        <<"Increase physical activity to at least 150 minutes per week",
          "Consult a nutritionist for a diabetes-prevention diet plan">>,
     hypertension |->
        <<"Practice stress-reduction techniques like meditation or yoga",
          "Reduce alcohol consumption to recommended limits">>,
     mental_health |->
        <<"Improve sleep hygiene and aim for 7-9 hours of sleep",
          "Increase social connections and community engagement">>]

PersonalHolds(phrase, f) ==
    CASE phrase = "Increase physical activity to at least 150 minutes per week" ->
            Read(f, "sedentary_lifestyle") = Num(1)
      [] phrase = "Consult a nutritionist for a diabetes-prevention diet plan" ->
            Lt(Read(f, "diet_quality_score"), Q(5, 2))
      [] phrase = "Practice stress-reduction techniques like meditation or yoga" ->
            Le(Num(7), Read(f, "avg_stress_level"))
      [] phrase = "Reduce alcohol consumption to recommended limits" ->
            Lt(Num(2), Read(f, "avg_alcohol_units"))
      [] phrase = "Improve sleep hygiene and aim for 7-9 hours of sleep" ->
            Lt(Read(f, "avg_sleep_hours"), Num(6))
      [] phrase = "Increase social connections and community engagement" ->
            Le(Read(f, "social_interaction_score"), Num(1))

\* C19: recommendations is the first 5 elements of the canned list of the
\* disease and level followed by the feature-triggered personalized list, in
\* that order, nothing removed or moved before the cut: its length never
\* exceeds 5 and a personalized entry is missing only when its position in the
\* concatenation is past 5.
C19_RecommendationsFirstFive ==
    (call = "_get_recommendations" /\ ~ret.raised) =>
        LET canned == IF args.disease \in DOMAIN recommendations_db
                      THEN recommendations_db[args.disease][args.risk_level] ELSE <<>>
            order == IF args.disease \in DOMAIN PersonalOrder
                     THEN PersonalOrder[args.disease] ELSE <<>>
            personalized == SelectSeq(order, LAMBDA phrase : PersonalHolds(phrase, features))
            all == canned \o personalized
        IN  /\ Len(ret.value) <= 5
            /\ Len(ret.value) = IF Len(all) < 5 THEN Len(all) ELSE 5
            /\ \A i \in DOMAIN ret.value : ret.value[i] = all[i]
            /\ \A j \in DOMAIN personalized :
                   Len(canned) + j <= 5 => ret.value[Len(canned) + j] = personalized[j]

\* Four canned and two personalized recommendations were cut to five: the
\* second personalized one fell past position 5.
C19_Witness ==
    /\ call = "_get_recommendations"
    /\ args.disease = "diabetes" /\ args.risk_level = "medium"
    /\ features["sedentary_lifestyle"] = Num(1)
    /\ features["diet_quality_score"] = Num(2)
    /\ ~ret.raised
    /\ Len(ret.value) = 5
    /\ ret.value[4] = "Monitor blood sugar every 6 months"
    /\ ret.value[5] = "Increase physical activity to at least 150 minutes per week"

\* The labels and the timestamp of a report.
LabelFields == {"user_id", "user_name", "report_date"}

\* C20: two generate_risk_report calls with identical risk_scores and
\* features give identical risk_assessments, overall_risk_score,
\* priority_actions, detailed_recommendations, key_risk_factors,
\* data_completeness and next_assessment_date, whatever the user context and
\* the time of the call: only user_id, user_name and report_date may differ.
C20_ReportIndependentOfUser ==
    call = "generate_risk_report" /\ "first" \in DOMAIN ret =>
        /\ DOMAIN ret.first = DOMAIN ret.second
        /\ \A k \in DOMAIN ret.first \ LabelFields : ret.first[k] = ret.second[k]
        /\ ret.first # NoReport =>
               {"risk_assessments", "overall_risk_score", "priority_actions",
                "detailed_recommendations", "key_risk_factors", "data_completeness",
                "next_assessment_date"} \subseteq DOMAIN ret.first

\* Two complete reports for different users at different times agreed on every
\* computed field.
C20_Witness ==
    /\ call = "generate_risk_report" /\ "first" \in DOMAIN ret
    /\ ret.first # NoReport
    /\ ret.first.user_id # ret.second.user_id
    /\ ret.first.user_name # ret.second.user_name
    /\ ret.first.report_date # ret.second.report_date
    /\ Len(ret.first.risk_assessments) = 5
    /\ ret.first.risk_assessments = ret.second.risk_assessments
    /\ ret.first.priority_actions # <<>>

\* ------------------------------------------------------------------ storage
\* One user's Firestore collections: lab_data, lifestyle_data,
\* mental_health_data and risk_reports hold the stored documents newest first,
\* family_history is the one family_history document (the empty mapping while
\* it does not exist). clock is datetime.now() in days.
MaxStored == 3
MaxGaps == 1

\* A span of days longer than every query window.
LongGap == 12 * 30 + 1

\* datetime.now() of a request: the time of the request before it, or a long gap later.
Nows == {clock} \cup {t \in {clock + LongGap} : t <= MaxGaps * LongGap}

\* firestore.SERVER_TIMESTAMP in the object handed to add() / set(), and the
\* time the server writes in its place.
SERVER_TIMESTAMP == <<"SERVER_TIMESTAMP", 0>>
ServerTime(now) == <<"timestamp", now>>

\* A JSON null.
Null == <<0, 0, "null">>

\* The fields whose values are numbers (or null) in a request body.
NumberFields ==
    {"glucose", "hba1c", "cholesterol", "hdl", "ldl", "triglycerides",
     "blood_pressure_systolic", "blood_pressure_diastolic", "heart_rate",
     "sleep_hours", "exercise_minutes", "steps", "water_intake_ml", "alcohol_units",
     "stress_level", "anxiety_level"}

\* sanitize_input: the None values are skipped (the strings of the bodies
\* below hold no blanks to strip and no < or > to escape).
sanitize_input(data) ==
    [k \in {j \in DOMAIN data : ~(j \in NumberFields /\ data[j] = Null)} |-> data[k]]

validations ==
    [glucose |-> <<0, 500>>, hba1c |-> <<0, 20>>, cholesterol |-> <<0, 500>>,
     hdl |-> <<0, 200>>, ldl |-> <<0, 400>>, triglycerides |-> <<0, 1000>>,
     blood_pressure_systolic |-> <<50, 250>>, blood_pressure_diastolic |-> <<30, 150>>,
     heart_rate |-> <<30, 200>>]

\* min_val <= value <= max_val
Between(value, min_val, max_val) == Le(Num(min_val), value) /\ Le(value, Num(max_val))

\* validate_lab_data: is_valid
validate_lab_data(data) ==
    /\ "test_date" \in DOMAIN data
    /\ \A field \in DOMAIN validations \cap DOMAIN data :
          /\ IsNum(data[field])
          /\ Between(data[field], validations[field][1], validations[field][2])

\* validate_lifestyle_data: is_valid
validate_lifestyle_data(data) ==
    /\ "date" \in DOMAIN data
    /\ "sleep_hours" \in DOMAIN data => Between(data["sleep_hours"], 0, 24)
    /\ "exercise_minutes" \in DOMAIN data => Between(data["exercise_minutes"], 0, 1440)
    /\ "steps" \in DOMAIN data => Between(data["steps"], 0, 100000)
    /\ "sleep_quality" \in DOMAIN data =>
           data["sleep_quality"] \in {"poor", "fair", "good", "excellent"}
    /\ "diet_quality" \in DOMAIN data =>
           data["diet_quality"] \in {"poor", "fair", "balanced", "excellent"}

\* validate_mental_health_data: is_valid
validate_mental_health_data(data) ==
    /\ "date" \in DOMAIN data
    /\ "stress_level" \in DOMAIN data => Between(data["stress_level"], 1, 10)
    /\ "anxiety_level" \in DOMAIN data => Between(data["anxiety_level"], 1, 10)
    /\ "mood" \in DOMAIN data =>
           data["mood"] \in {"depressed", "low", "neutral", "good", "excellent"}

\* The document store_lab_data, store_lifestyle_data and
\* store_mental_health_data add for a record.
StoredRecord(data, now) == [timestamp |-> ServerTime(now), created_at |-> now] @@ data

\* .where('created_at', '>=', cutoff).order_by('created_at', DESCENDING)
Since(docs, cutoff) ==
    LET InWindow(doc) == doc.created_at >= cutoff
    IN  SelectSeq(docs, InWindow)

get_lab_history(now, months) == Since(lab_data, now - months * 30)
get_lifestyle_history(now, days) == Since(lifestyle_data, now - days)
get_mental_health_history(now, months) == Since(mental_health_data, now - months * 30)
get_family_history == family_history
get_latest_risk_report == IF risk_reports = <<>> THEN NoReport ELSE Head(risk_reports)

get_all_user_health_data(now) ==
    [lab_data |-> get_lab_history(now, 12),
     lifestyle_data |-> get_lifestyle_history(now, 90),
     mental_health_data |-> get_mental_health_history(now, 6),
     family_history |-> get_family_history,
     latest_report |-> get_latest_risk_report]

\* any(health_data.values())
AnyValue(health_data) ==
    \/ health_data.lab_data # <<>>
    \/ health_data.lifestyle_data # <<>>
    \/ health_data.mental_health_data # <<>>
    \/ DOMAIN health_data.family_history # {}
    \/ DOMAIN health_data.latest_report # {}

Response(status, body) == [status |-> status, body |-> body, report |-> NoReport]

\* ------------------------------------------------------------------ request bodies
LabBodies ==
    {[test_date |-> "2026-01-01"] @@ LabNormal,
     [test_date |-> "2026-01-02", hdl |-> Null] @@ LabTextAlt,
     LabElevated}

LifestyleBodies ==
    {[date |-> "2026-01-01"] @@ LifeSedentary,
     LifeSparse}

MentalBodies ==
    {[date |-> "2026-01-01"] @@ MentalStressed,
     [date |-> "2026-01-02", stress_level |-> Num(11)]}

FamilyBodies == {FamilyMetabolic}

\* The model files under MODEL_PATH.
EndpointModels == {AllUnfitted, Failing(AllFitted, {"liver_disease"})}

\* The documents in the user's four collections.
StoredCount ==
    Len(lab_data) + Len(lifestyle_data) + Len(mental_health_data) + Len(risk_reports)

\* ------------------------------------------------------------------ Spec
\* The endpoints of one authenticated user, one request at a time. features,
\* risk_scores and report are the locals of the request handled last: report is
\* what generate_risk_report returned.
Init ==
    /\ lab_data = <<>>
    /\ lifestyle_data = <<>>
    /\ mental_health_data = <<>>
    /\ family_history = NoFamilyHistory
    /\ risk_reports = <<>>
    /\ clock = 0
    /\ call = "none"
    /\ args = NoArgs
    /\ features = EmptyFrame
    /\ risk_scores = NoScores
    /\ report = NoReport
    /\ ret = 0
    /\ response = NoResponse
    /\ LoaderIdle

\* POST /data/lab
submit_lab_data ==
    \E now \in Nows, data \in LabBodies :
        LET sanitized_data == sanitize_input(data)
        IN  /\ StoredCount < MaxStored
            /\ clock' = now
            /\ call' = "submit_lab_data"
            /\ args' = [now |-> now, data |-> data]
            /\ IF ~validate_lab_data(sanitized_data)
               THEN /\ response' = Response(400, "error_msg")
                    /\ UNCHANGED lab_data
               ELSE /\ lab_data' = <<StoredRecord(sanitized_data, now)>> \o lab_data
                    /\ response' = Response(200, "Lab data stored successfully")
            /\ features' = EmptyFrame
            /\ risk_scores' = NoScores
            /\ report' = NoReport
            /\ UNCHANGED <<lifestyle_data, mental_health_data, family_history, risk_reports, ret,
                   loaderVars>>

\* POST /data/lifestyle
submit_lifestyle_data ==
    \E now \in Nows, data \in LifestyleBodies :
        LET sanitized_data == sanitize_input(data)
        IN  /\ StoredCount < MaxStored
            /\ clock' = now
            /\ call' = "submit_lifestyle_data"
            /\ args' = [now |-> now, data |-> data]
            /\ IF ~validate_lifestyle_data(sanitized_data)
               THEN /\ response' = Response(400, "error_msg")
                    /\ UNCHANGED lifestyle_data
               ELSE /\ lifestyle_data' = <<StoredRecord(sanitized_data, now)>> \o lifestyle_data
                    /\ response' = Response(200, "Lifestyle data stored successfully")
            /\ features' = EmptyFrame
            /\ risk_scores' = NoScores
            /\ report' = NoReport
            /\ UNCHANGED <<lab_data, mental_health_data, family_history, risk_reports, ret,
                   loaderVars>>

\* POST /data/mental-health
submit_mental_health_data ==
    \E now \in Nows, data \in MentalBodies :
        LET sanitized_data == sanitize_input(data)
        IN  /\ StoredCount < MaxStored
            /\ clock' = now
            /\ call' = "submit_mental_health_data"
            /\ args' = [now |-> now, data |-> data]
            /\ IF ~validate_mental_health_data(sanitized_data)
               THEN /\ response' = Response(400, "error_msg")
                    /\ UNCHANGED mental_health_data
               ELSE /\ mental_health_data' =
                           <<StoredRecord(sanitized_data, now)>> \o mental_health_data
                    /\ response' = Response(200, "Mental health data stored successfully")
            /\ features' = EmptyFrame
            /\ risk_scores' = NoScores
            /\ report' = NoReport
            /\ UNCHANGED <<lab_data, lifestyle_data, family_history, risk_reports, ret,
                   loaderVars>>

\* POST /data/family-history: store_family_history sets the document with merge=True.
submit_family_history ==
    \E now \in Nows, data \in FamilyBodies :
        LET sanitized_data == sanitize_input(data)
        IN  /\ clock' = now
            /\ call' = "submit_family_history"
            /\ args' = [now |-> now, data |-> data]
            /\ family_history' =
                   [updated_at |-> ServerTime(now)] @@ sanitized_data @@ family_history
            /\ response' = Response(200, "Family history stored successfully")
            /\ features' = EmptyFrame
            /\ risk_scores' = NoScores
            /\ report' = NoReport
            /\ UNCHANGED <<lab_data, lifestyle_data, mental_health_data, risk_reports, ret,
                   loaderVars>>

\* POST /assessment/generate. store_risk_report writes timestamp and created_at
\* into the report object itself and then adds it to the collection; when the
\* add raises it logs the error and returns False, and the endpoint does not
\* read what it returns. The report object is what jsonify is then given;
\* jsonify raises TypeError on a value its JSON provider cannot serialise, and
\* whether the SERVER_TIMESTAMP sentinel is such a value is the provider's:
\* both outcomes are taken.
generate_risk_assessment ==
    \E now \in Nows :
      \E health_data \in {get_all_user_health_data(now)} :
      \E f \in {engineer_features(health_data)} :
      \E models \in EndpointModels :
      \E scores \in {predict_risk_scores(f, models)} :
      \E risk_report \in {generate_risk_report(scores, f, CurrentUser, RISK_THRESHOLDS, now)} :
      \E serializes \in BOOLEAN :
      \E added \in BOOLEAN :
        LET handed == [timestamp |-> SERVER_TIMESTAMP, created_at |-> now] @@ risk_report
            stored == [timestamp |-> ServerTime(now), created_at |-> now] @@ risk_report
        IN  /\ clock' = now
            /\ call' = "generate_risk_assessment"
            /\ IF ~AnyValue(health_data)
               THEN /\ response' =
                           Response(400, "Insufficient data for risk assessment. Please add health data first.")
                    /\ features' = EmptyFrame
                    /\ risk_scores' = NoScores
                    /\ report' = NoReport
                    /\ args' = [now |-> now, models |-> models, health_data |-> health_data]
                    /\ UNCHANGED risk_reports
               ELSE IF DOMAIN f = {}
               THEN /\ response' = Response(500, "Failed to process health data")
                    /\ features' = f
                    /\ risk_scores' = NoScores
                    /\ report' = NoReport
                    /\ args' = [now |-> now, models |-> models, health_data |-> health_data]
                    /\ UNCHANGED risk_reports
               ELSE /\ StoredCount < MaxStored
                    /\ features' = f
                    /\ risk_scores' = scores
                    /\ report' = risk_report
                    /\ args' = [now |-> now, models |-> models, health_data |-> health_data,
                                 stored |-> added]
                    /\ risk_reports' = IF added THEN <<stored>> \o risk_reports
                                       ELSE risk_reports
                    /\ response' =
                           IF serializes
                           THEN [status |-> 200, body |-> "success", report |-> handed]
                           ELSE Response(500, "Failed to generate risk assessment")
            /\ UNCHANGED <<lab_data, lifestyle_data, mental_health_data, family_history, ret,
                   loaderVars>>

Next ==
    \/ submit_lab_data
    \/ submit_lifestyle_data
    \/ submit_mental_health_data
    \/ submit_family_history
    \/ generate_risk_assessment

Spec == Init /\ [][Next]_vars

\* C3: when the health data of a generate-assessment request holds no record
\* in any category (empty lab, lifestyle and mental-health sequences, no family
\* history), the response is the insufficient-data error and feature
\* engineering, prediction and scoring have not run, whatever reports are stored.
C3_InsufficientDataFirst ==
    (/\ call = "generate_risk_assessment"
     /\ args.health_data.lab_data = <<>>
     /\ args.health_data.lifestyle_data = <<>>
     /\ args.health_data.mental_health_data = <<>>
     /\ DOMAIN args.health_data.family_history = {})
        => /\ response.status = 400
           /\ response.body
                  = "Insufficient data for risk assessment. Please add health data first."
           /\ features = EmptyFrame
           /\ risk_scores = NoScores
           /\ report = NoReport

\* C4: a generate-assessment request whose feature engineering fails (the
\* empty frame) or whose report synthesis fails (generate_risk_report returns
\* the empty result) is answered with a generation failure, not with success
\* and not with the insufficient-data error, and returns and stores no report.
C4_FailureYieldsNoReport ==
    [][(/\ call' = "generate_risk_assessment"
        /\ AnyValue(args'.health_data)
        /\ features' = EmptyFrame \/ report' = NoReport)
          => /\ response'.status = 500
             /\ response'.body \in {"Failed to process health data",
                                    "Failed to generate risk assessment"}
             /\ response'.report = NoReport
             /\ risk_reports' = risk_reports]_vars

\* C15: storing a report does not change it: after a generate-assessment
\* request whose generate_risk_report produced a report and whose
\* store_risk_report returned True, the newest stored
\* report is exactly that report, and the report a successful response carries
\* (the object that was handed to store_risk_report) has exactly the fields and
\* values generate_risk_report produced.
C15_StoredVerbatim ==
    (call = "generate_risk_assessment" /\ report # NoReport /\ args.stored) =>
        /\ risk_reports # <<>>
        /\ Head(risk_reports) = report
        /\ response.status = 200 => response.report = report

ScoreCases ==
    [diabetes : {Pct(20), Pct(50), Pct(70)},
     hypertension : {Pct(20), 49999, Pct(80)},
     liver_disease : {Pct(15), 66666, Pct(70)},
     cardiac_risk : {12340, Pct(20), Pct(75)},
     mental_health : {Pct(25), Pct(50), 69994}]

InitScores ==
    /\ lab_data \in {<<>>, <<LabElevated>>}
    /\ lifestyle_data = <<>>
    /\ mental_health_data = <<>>
    /\ family_history = NoFamilyHistory
    /\ risk_reports = <<>>
    /\ clock = 0
    /\ call = "predict_risk_scores"
    /\ features = engineer_features(
           HealthData(lab_data, lifestyle_data, mental_health_data, family_history))
    /\ \E p \in ScoreCases :
        /\ args = [models |-> [d \in Diseases |-> ModelState(TRUE, FALSE, p[d])]]
        /\ risk_scores = predict_risk_scores(features, args.models)
    /\ report = NoReport
    /\ ret = 0
    /\ response = NoResponse
    /\ LoaderIdle

NextScores == CallGenerateRiskReport

SpecScores == InitScores /\ [][NextScores]_vars

\* the sum of the probabilities of scores[1..i]
RECURSIVE SumTo(_, _)
SumTo(scores, i) == IF i = 0 THEN 0 ELSE scores[i].score + SumTo(scores, i - 1)

\* C21: overall_risk_score of a report is the unweighted mean of the
\* probabilities it was given, times 100, rounded to two decimals: the
\* hundredth of a percent nearest to the mean (the even one on a tie);
\* {diabetes: 0.8, hypertension: 0.2} gives 50.0.
C21_OverallIsMeanPercentage ==
    (call = "generate_risk_report" /\ report # NoReport) =>
        LET n == Len(args.risk_scores)
            total == SumTo(args.risk_scores, n)
            overall == report.overall_risk_score
            distance == Abs(overall * 10 * n - total)
        IN  /\ 2 * distance <= 10 * n
            /\ 2 * distance = 10 * n => overall % 2 = 0
            /\ args.risk_scores = ScoresTwo => overall = Percent(50)

C21_Witness ==
    /\ call = "generate_risk_report"
    /\ report # NoReport
    /\ args.risk_scores = ScoresTwo
    /\ report.overall_risk_score = Percent(50)

C21_WitnessRounded ==
    /\ call = "generate_risk_report"
    /\ report # NoReport
    /\ Len(args.risk_scores) = 5
    /\ SumTo(args.risk_scores, 5) % 50 # 0

\* C22: detailed_recommendations of a report always has the four buckets
\* lifestyle, medical, monitoring and prevention, and its medical bucket holds
\* one consultation per disease assessed high or very_high, in the order of
\* the assessments, and none for a disease assessed low or medium.
C22_MedicalPerHighDisease ==
    (call = "generate_risk_report" /\ report # NoReport) =>
        LET high == SelectSeq(report.risk_assessments,
                              LAMBDA a : a.risk_level \in {"high", "very_high"})
            buckets == report.detailed_recommendations
        IN  /\ DOMAIN buckets = {"lifestyle", "medical", "monitoring", "prevention"}
            /\ Len(buckets.medical) = Len(high)
            /\ \A i \in DOMAIN high :
                  buckets.medical[i] =
                      <<"Schedule consultation with healthcare provider for ",
                        ReplaceUnderscore(high[i].disease)>>

C22_Witness ==
    /\ call = "generate_risk_report"
    /\ report # NoReport
    /\ \E i, j, k \in DOMAIN report.risk_assessments :
        /\ report.risk_assessments[i].risk_level = "very_high"
        /\ report.risk_assessments[j].risk_level = "high"
        /\ report.risk_assessments[k].risk_level \in {"low", "medium"}
    /\ Len(report.detailed_recommendations.medical) \in
           1..(Len(report.risk_assessments) - 1)

\* C23: next_assessment_date is '1 month' when the largest risk_score of the
\* report is at least 70, '3 months' when it is at least 50 and below 70, and
\* '6 months' otherwise; exactly 70 gives '1 month', exactly 50 '3 months'.
C23_NextAssessmentByMaxScore ==
    (call = "generate_risk_report" /\ report # NoReport) =>
        LET risk_score == {report.risk_assessments[i].risk_score :
                              i \in DOMAIN report.risk_assessments}
            next == report.next_assessment_date
        IN  /\ (\E s \in risk_score : s >= Percent(70)) => next = "1 month"
            /\ ((\A s \in risk_score : s < Percent(70))
                   /\ (\E s \in risk_score : s >= Percent(50))) => next = "3 months"
            /\ (\A s \in risk_score : s < Percent(50)) => next = "6 months"

C23_Witness ==
    /\ call = "generate_risk_report"
    /\ report # NoReport
    /\ MaxRiskScore(report.risk_assessments) = Percent(70)
    /\ report.next_assessment_date = "1 month"

C23_WitnessFifty ==
    /\ call = "generate_risk_report"
    /\ report # NoReport
    /\ MaxRiskScore(report.risk_assessments) = Percent(50)
    /\ report.next_assessment_date = "3 months"

\* The report was produced with the configured thresholds.
ConfiguredReport ==
    /\ call = "generate_risk_report"
    /\ report # NoReport
    /\ args.thresholds = RISK_THRESHOLDS

VeryHigh(r) == {a \in {r.risk_assessments[i] : i \in DOMAIN r.risk_assessments} :
                   a.risk_level = "very_high"}

\* C25 as stated: with the configured thresholds, a report that has a disease
\* at very_high has next_assessment_date '1 month'.
C25_VeryHighMeansOneMonth ==
    (ConfiguredReport /\ VeryHigh(report) # {}) => report.next_assessment_date = "1 month"

\* C25: with the configured thresholds, a report that has a disease other
\* than liver_disease at very_high has next_assessment_date '1 month'; a report
\* whose only very_high disease is liver_disease has '1 month' or '3 months'
\* (liver_disease is very_high from 0.65, a risk_score below 70).
C25_VeryHighExceptLiverMeansOneMonth ==
    ConfiguredReport =>
        /\ (\E a \in VeryHigh(report) : a.disease # "liver_disease")
               => report.next_assessment_date = "1 month"
        /\ VeryHigh(report) # {} => report.next_assessment_date \in {"1 month", "3 months"}

C25_Witness ==
    /\ ConfiguredReport
    /\ \E a \in VeryHigh(report) : a.disease = "diabetes" /\ a.risk_score = Percent(70)
    /\ MaxRiskScore(report.risk_assessments) = Percent(70)
    /\ report.next_assessment_date = "1 month"

C25_WitnessLiver ==
    /\ ConfiguredReport
    /\ \A a \in VeryHigh(report) : a.disease = "liver_disease"
    /\ VeryHigh(report) # {}
    /\ report.next_assessment_date = "3 months"


\* ------------------------------------------------------------------ predict_risks
\* risk_prob_predictor.predict_risks: the probabilities of the five targets
\* and their levels, from the values the loaded model predicts.
TARGET_PROB_COLS ==
    <<"risk_ckd_prob", "risk_cad_prob", "risk_aki_prob", "risk_sepsis_prob",
      "risk_metabolic_syndrome_prob">>

\* float(x) succeeds: x is a number or NaN
IsFloat(x) == IsNum(x) \/ x = NaN

\* _map_level with inclusive upper bounds.
MapLevelInclusive(p) ==
    IF ~IsFloat(p) THEN "Unknown"
    ELSE IF Le(p, Q(1, 1000)) THEN "Very Low"
    ELSE IF Le(p, Q(1, 100)) THEN "Low"
    ELSE IF Le(p, Q(5, 100)) THEN "Moderate"
    ELSE IF Le(p, Q(20, 100)) THEN "High"
    ELSE "Critical"

_map_level(p) ==
    IF ~IsFloat(p) THEN "Unknown"
    ELSE IF Lt(p, Q(1, 1000)) THEN "Very Low"
    ELSE IF Lt(p, Q(1, 100)) THEN "Low"
    ELSE IF Lt(p, Q(5, 100)) THEN "Moderate"
    ELSE IF Lt(p, Q(20, 100)) THEN "High"
    ELSE "Critical"

\* One pass of the loop over the target columns: v = float(values[i]), None
\* when that raises (no i-th value, a value float() rejects).
Emitted(values, i) ==
    LET v == IF i \in DOMAIN values /\ IsFloat(values[i]) THEN values[i] ELSE Null
    IN  [name |-> TARGET_PROB_COLS[i],
         probability |-> v,
         level |-> IF v # Null THEN _map_level(v) ELSE "Unknown"]

\* The loaded pickle, by what predict_risks can do with it: a dict whose clf
\* has predict_proba, a dict whose clf has predict only, an estimator with
\* predict; a dict without clf, an object without predict and an estimator
\* whose predict raises make predict_risks raise.
ModelKinds == {"clf_proba", "clf_predict", "estimator", "no_clf", "no_predict", "predict_raises"}

predict_risks(model) ==
    IF model.kind \in {"no_clf", "no_predict", "predict_raises"} THEN Raised
    ELSE Returned([i \in DOMAIN TARGET_PROB_COLS |-> Emitted(model.values, i)])

\* The values a model predicts, around the cut points of _map_level, outside
\* the unit interval, NaN and a value float() rejects.
PredictedValues ==
    {Num(-1), Num(0), Q(999, 1000 * 1000), Q(1, 1000), Q(9999, 1000 * 1000), Q(1, 100),
     Q(49999, 1000 * 1000), Q(5, 100), Q(199999, 1000 * 1000), Q(20, 100), Num(1),
     NaN, NotANumber}

\* Rows of one or five values, all alike but one.
PredictedRows ==
    {[i \in 1..n |-> IF i = k THEN v ELSE b] :
        n \in {1, Len(TARGET_PROB_COLS)}, k \in 1..Len(TARGET_PROB_COLS),
        v \in PredictedValues, b \in {Num(0), Q(20, 100)}}

InitPredict ==
    /\ lab_data = <<>>
    /\ lifestyle_data = <<>>
    /\ mental_health_data = <<>>
    /\ family_history = NoFamilyHistory
    /\ risk_reports = <<>>
    /\ clock = 0
    /\ call = "none"
    /\ args \in [kind : ModelKinds, values : PredictedRows]
    /\ features = EmptyFrame
    /\ risk_scores = NoScores
    /\ report = NoReport
    /\ ret = 0
    /\ response = NoResponse
    /\ _MODEL = None
    /\ model_file \in BOOLEAN
    /\ loads = 0
    /\ pc = <<>>
    /\ frame = <<>>

\* predict_risks(data) in a fresh process: model = get_model() loads the
\* pickle or raises FileNotFoundError, then the values are labelled.
CallPredictRisks ==
    /\ call = "none"
    /\ call' = "predict_risks"
    /\ IF model_file
       THEN /\ _MODEL' = Artifact(1)
            /\ loads' = 1
            /\ ret' = predict_risks(args)
       ELSE /\ ret' = Raised
            /\ UNCHANGED <<_MODEL, loads>>
    /\ UNCHANGED <<lab_data, lifestyle_data, mental_health_data, family_history,
                   risk_reports, clock, args, features, risk_scores, report, response,
                   model_file, pc, frame>>

NextPredict == CallPredictRisks

SpecPredict == InitPredict /\ [][NextPredict]_vars

\* the level of the five-tier scale for a probability n/d: each upper bound
\* is exclusive, and whatever is below none of them is Critical
Tier(p) ==
    IF p[3] = "q" /\ 1000 * p[1] < p[2] THEN "Very Low"
    ELSE IF p[3] = "q" /\ 100 * p[1] < p[2] THEN "Low"
    ELSE IF p[3] = "q" /\ 20 * p[1] < p[2] THEN "Moderate"
    ELSE IF p[3] = "q" /\ 5 * p[1] < p[2] THEN "High"
    ELSE "Critical"

\* C24: every probability predict_risks emits carries the level of the
\* five-tier scale (below 0.001 Very Low, below 0.01 Low, below 0.05 Moderate,
\* below 0.20 High, otherwise Critical, so exactly 0.20 is Critical), and no
\* entry carries one of the labels low, medium, high, very_high.
C24_FiveTierLabels ==
    (call = "predict_risks" /\ ~ret.raised) =>
        \A i \in DOMAIN ret.value :
            /\ ret.value[i].level \notin {"low", "medium", "high", "very_high"}
            /\ ret.value[i].probability # Null
                   => ret.value[i].level = Tier(ret.value[i].probability)

C24_Witness ==
    /\ call = "predict_risks"
    /\ ~ret.raised
    /\ \E i, j \in DOMAIN ret.value :
        /\ ret.value[i].probability = Q(20, 100)
        /\ ret.value[i].level = "Critical"
        /\ ret.value[j].probability = Q(199999, 1000 * 1000)
        /\ ret.value[j].level = "High"


\* ------------------------------------------------------------------ rule-based reports
\* The report was produced from the rule-based probabilities of the
\* engineered vector, with the configured thresholds.
RuleBasedReport ==
    /\ ConfiguredReport
    /\ features # EmptyFrame
    /\ args.risk_scores = predict_risk_scores(features, AllUnfitted)

\* C26: in a report produced from the rule-based probabilities of an
\* engineered vector with the configured thresholds, a disease assessed high
\* or very_high names at least one actual contributing factor, never the
\* placeholder 'No significant risk factors identified'.
C26_HighRiskNamesFactor ==
    RuleBasedReport =>
        \A i \in DOMAIN report.risk_assessments :
            report.risk_assessments[i].risk_level \in {"high", "very_high"}
                => report.risk_assessments[i].contributing_factors
                       # <<"No significant risk factors identified">>

\* C27: data_completeness of a report is 0 for every category the health
\* data holds no record of.
C27_EmptyCategoryIsIncomplete ==
    (call = "generate_risk_report" /\ report # NoReport /\ features # EmptyFrame) =>
        /\ lab_data = <<>> => report.data_completeness.lab_data = 0
        /\ lifestyle_data = <<>> => report.data_completeness.lifestyle_data = 0
        /\ mental_health_data = <<>> => report.data_completeness.mental_health = 0
        /\ family_history = NoFamilyHistory => report.data_completeness.family_history = 0

\* C29: the rule-based fallback alone reaches very_high for each of the five
\* diseases: the vector engineered from one elevated lab record, one
\* sedentary lifestyle record, one stressed mental-health record and a family
\* history of heart disease has, for every disease, a rule-based probability
\* at or above the disease's configured 'high' cut point.
C29_RulesReachVeryHigh ==
    (/\ call = "predict_risk_scores"
     /\ args.models = AllUnfitted
     /\ lab_data = <<LabElevated>>
     /\ lifestyle_data = <<LifeSedentary>>
     /\ mental_health_data = <<MentalStressed>>
     /\ family_history = FamilyCardiac) =>
        /\ Keys(risk_scores) = Diseases
        /\ \A i \in DOMAIN risk_scores :
            /\ risk_scores[i].score >= RISK_THRESHOLDS[risk_scores[i].disease]["high"]
            /\ _get_risk_level(risk_scores[i].score, risk_scores[i].disease, RISK_THRESHOLDS)
                   = "very_high"

C29_Witness ==
    /\ call = "predict_risk_scores"
    /\ args.models = AllUnfitted
    /\ Len(risk_scores) = 5
    /\ \A i \in DOMAIN risk_scores :
          risk_scores[i].score = _rule_based_prediction(features, risk_scores[i].disease)
    /\ \A i \in DOMAIN risk_scores :
          risk_scores[i].score >= RISK_THRESHOLDS[risk_scores[i].disease]["high"]


\* ------------------------------------------------------------------ sequential get_model
\* One caller calling get_model time after time in one process, while the
\* model file appears and disappears between and during the calls (the file
\* is written or deleted, RISK_PROB_MODEL_PATH is pointed elsewhere).
\* frame[1].calls is the number of the call, frame[1].outcomes how the
\* earlier calls ended.
MaxCalls == 6

InitSequential ==
    /\ lab_data = <<>>
    /\ lifestyle_data = <<>>
    /\ mental_health_data = <<>>
    /\ family_history = NoFamilyHistory
    /\ risk_reports = <<>>
    /\ clock = 0
    /\ call = "none"
    /\ args = NoArgs
    /\ features = EmptyFrame
    /\ risk_scores = NoScores
    /\ report = NoReport
    /\ ret = 0
    /\ response = NoResponse
    /\ _MODEL = None
    /\ model_file \in BOOLEAN
    /\ loads = 0
    /\ pc = <<"called">>
    /\ frame = <<[loaded |-> None, result |-> None, calls |-> 1, outcomes |-> <<>>]>>

\* the caller, returned from get_model or past its exception, calls it again
CallAgain ==
    /\ pc[1] \in {"returned", "raised"}
    /\ frame[1].calls < MaxCalls
    /\ pc' = <<"called">>
    /\ frame' = <<[loaded |-> None, result |-> None, calls |-> frame[1].calls + 1,
                   outcomes |-> Append(frame[1].outcomes, pc[1])]>>
    /\ UNCHANGED <<_MODEL, model_file, loads, pipelineVars>>

\* Path(model_path).exists() changes its answer
ChangeFile ==
    /\ model_file' = ~model_file
    /\ UNCHANGED <<_MODEL, loads, pc, frame, pipelineVars>>

NextSequential ==
    \/ get_model(1)
    \/ CallAgain
    \/ ChangeFile

SpecSequential == InitSequential /\ [][NextSequential]_vars

\* C30: over a sequence of get_model calls in one process, a call that fails
\* because the file is missing leaves the cache empty, and a call that finds
\* the cache empty goes to the file again; once the artifact is loaded the
\* cache keeps it, the file is not read again whatever happens to it, and
\* every call that returns, returns the cached artifact.
C30_SequentialCalls ==
    [][/\ (pc'[1] = "raised" /\ pc[1] # "raised") => _MODEL' = None
       /\ (pc[1] = "called" /\ _MODEL = None /\ pc'[1] # "called") => pc'[1] = "find"
       /\ (pc[1] = "find" /\ model_file /\ pc'[1] # "find") => pc'[1] = "load"
       /\ _MODEL # None => (_MODEL' = _MODEL /\ loads' = loads)
       /\ (pc'[1] = "returned" /\ pc[1] # "returned") =>
              (frame'[1].result = Artifact(1) /\ _MODEL' = Artifact(1) /\ loads' = 1)]_vars

C30_Witness ==
    /\ frame[1].calls = 3
    /\ frame[1].outcomes = <<"raised", "returned">>
    /\ pc[1] = "returned"
    /\ frame[1].result = Artifact(1)
    /\ loads = 1
    /\ ~model_file

====
